---- MODULE Spec2Model ----
(***************************************************************************)
(* A model of polyrag's retrieval strategies: the weighted fusion of       *)
(* HybridRetriever, the MaxSim reranking of ColBERTRetriever and the       *)
(* subgraph-to-text synthesis of GraphRetriever.                           *)
(*                                                                         *)
(* Scores and weights are Python floats in the source.  They are modelled  *)
(* as exact rationals <<n, d>> in lowest terms with d > 0 (raw scores and  *)
(* weights given by the caller are integers, in tenths), so rounding is   *)
(* not modelled.  Text is a sequence of one-character strings.             *)
(***************************************************************************)
EXTENDS Integers, Sequences, FiniteSets, TLC

VARIABLES
    hy_pc,           \* position of the HybridRetriever: new / failed / idle / loop / returned / raised
    hy_given,        \* the `weights` argument of the constructor call, until retrieve is entered
    hy_retrievers,   \* self._retrievers: the source tag of each strategy, in list order
    hy_weights,      \* self._weights: one rational per strategy
    hy_error,        \* the exception that left the constructor or retrieve ("" when none)
    hy_query,        \* the `query` argument of the retrieve call in progress
    hy_limit,        \* its `limit`
    hy_kwargs,       \* its further options (**kwargs): a filter, or "none"
    hy_i,            \* index of the next strategy of the loop of retrieve
    hy_calls,        \* the retrieve calls made on the strategies, in order
    hy_outputs,      \* the result list each invoked strategy returned, in order
    hy_all_results,  \* the dict all_results, as its entries in insertion order
    hy_result        \* the list retrieve returned

VARIABLES
    ms_pc,           \* _compute_maxsim: "args" before the call, "done" after it
    ms_query_tokens, \* its argument query_tokens, a Q x dim matrix (a sequence of rows)
    ms_doc_tokens,   \* its argument doc_tokens, a T x dim matrix
    ms_score         \* the value it returned

VARIABLES
    cb_pc,           \* position of ColBERTRetriever.retrieve: idle / loop / returned
    cb_query,        \* the query of the call in progress
    cb_limit,        \* its `limit`
    cb_query_tokens, \* query_tokens: the token matrix of the query
    cb_candidates,   \* candidates: what the vector search returned
    cb_calls,        \* calls made on the ColBERT adapter and the vector store, in order
    cb_reranked,     \* reranked: one entry per candidate handled so far
    cb_result        \* the list retrieve returned

VARIABLES
    gr_pc,           \* position of GraphRetriever.retrieve: idle / loop / returned
    gr_depth,        \* self._depth
    gr_limit,        \* the `limit` of the call in progress
    gr_nodes,        \* nodes: the records the match query returned, as their "n" nodes
    gr_subgraphs,    \* the subgraph obtained for each record handled so far
    gr_calls,        \* calls made on the graph store, in order
    gr_results       \* results: one RetrievalResult per record handled so far

VARIABLES
    vr_pc,           \* position of VectorRetriever.retrieve: idle / embedded / returned / raised
    vr_collection,   \* the collection the retriever is configured with: missing / empty / filled
    vr_query,        \* the query of the call in progress
    vr_limit,        \* its `limit`
    vr_filter,       \* its `filter` option ("none" when the caller gave none)
    vr_calls,        \* calls made on the embedder and the vector store, in order
    vr_found,        \* what the vector store's search returned
    vr_result,       \* the list retrieve returned
    vr_error         \* the exception that left retrieve ("" when none)

VARIABLES
    pl_pc,           \* position of the pipeline call in progress: idle / ensured / loaded /
                     \* chunked / embedded / retrieved / streaming / returned / raised
    pl_op,           \* the call in progress or last made: ingest / query / query_stream /
                     \* get_retrieval_results
    pl_ops,          \* number of calls made on the pipeline so far
    pl_collection_initialized,  \* self._collection_initialized
    pl_store,        \* the vector collection: whether it exists, and the batches it holds
    pl_creates,      \* number of create_collection calls that returned
    pl_arg,          \* the arguments of the call: path, or question / top_k / system_prompt
    pl_documents,    \* documents: the files loaded, in order
    pl_chunks,       \* all_chunks, each with the embedding set on it ("" when none)
    pl_results,      \* results: what the retriever returned
    pl_system,       \* formatted_system: the system prompt passed to the generator
    pl_stream,       \* what the generator produces: its answer, or the increments of its
                     \* stream and whether it then fails
    pl_calls,        \* calls made on the collaborators during the call, in order
    pl_inserted,     \* the chunk lists passed to insert during the call
    pl_return,       \* what the call returned (query_stream: what it yielded so far)
    pl_error         \* the exception that left the call ("" when none)

VARIABLES
    fc_pc,           \* position of the FixedSizeChunker: new / failed / idle / loop / done
    fc_chunk_size,   \* self._chunk_size
    fc_chunk_overlap, \* self._chunk_overlap
    fc_error,        \* the exception that left the constructor ("" when none)
    fc_text,         \* the text argument of _split_text
    fc_start,        \* start
    fc_starts,       \* the value of start at which each chunk was cut
    fc_chunks        \* chunks

VARIABLES
    ci_pc,           \* for each thread in ingest on one shared pipeline instance, its
                     \* position: start / create / set / ensured / batched / done / empty /
                     \* raised
    ci_flag,         \* self._collection_initialized of the shared instance
    ci_creates,      \* number of create_collection calls that returned
    ci_sets,         \* number of times the flag was assigned True
    ci_store         \* the collection: whether it exists, and the threads whose batch
                     \* it holds (0: what it held before)

VARIABLES
    qd_pc,           \* the last call on the QdrantAdapter: idle / inserted / raised /
                     \* retrieved / fused
    qd_points,       \* the points the collection holds
    qd_caller,       \* who made the insert call, when that is the last call: "caller",
                     \* or "ingest" (the pipeline)
    qd_batch,        \* the chunks argument of that insert call
    qd_error,        \* the exception that left the last call ("" when none)
    qd_inserts,      \* number of insert calls made (once a retriever is used, no more
                     \* are made)
    qd_outputs,      \* per retrieve call made on a retriever over the collection: the
                     \* retriever, its limit, what search returned and what it returned
    qd_fused         \* all_results of a hybrid retrieve over those retrievers

hy_vars == <<hy_pc, hy_given, hy_retrievers, hy_weights, hy_error, hy_query, hy_limit,
             hy_kwargs, hy_i, hy_calls, hy_outputs, hy_all_results, hy_result>>

ms_vars == <<ms_pc, ms_query_tokens, ms_doc_tokens, ms_score>>

cb_vars == <<cb_pc, cb_query, cb_limit, cb_query_tokens, cb_candidates, cb_calls,
             cb_reranked, cb_result>>

gr_vars == <<gr_pc, gr_depth, gr_limit, gr_nodes, gr_subgraphs, gr_calls, gr_results>>

vr_vars == <<vr_pc, vr_collection, vr_query, vr_limit, vr_filter, vr_calls, vr_found,
             vr_result, vr_error>>

pl_vars == <<pl_pc, pl_op, pl_ops, pl_collection_initialized, pl_store, pl_creates, pl_arg,
             pl_documents, pl_chunks, pl_results, pl_system, pl_stream, pl_calls,
             pl_inserted, pl_return, pl_error>>

fc_vars == <<fc_pc, fc_chunk_size, fc_chunk_overlap, fc_error, fc_text, fc_start,
             fc_starts, fc_chunks>>

ci_vars == <<ci_pc, ci_flag, ci_creates, ci_sets, ci_store>>

qd_vars == <<qd_pc, qd_points, qd_caller, qd_batch, qd_error, qd_inserts, qd_outputs,
             qd_fused>>

vars == <<hy_vars, ms_vars, cb_vars, gr_vars, vr_vars, pl_vars, fc_vars, ci_vars, qd_vars>>

(***************************************************************************)
(* Bounds of the model.                                                    *)
(***************************************************************************)
MaxLimit == 2           \* largest `limit` a caller passes
MaxResults == 3         \* results all strategies return together in one call
MaxQueryTokens == 2     \* rows of a query token matrix given to _compute_maxsim
MaxDocTokens == 2       \* rows of a document token matrix given to _compute_maxsim
MaxCandidates == 3      \* candidates one vector search returns
MaxSubgraphItems == 3   \* nodes and relationships of all subgraphs of one call together

HWeights == {0, 3, 7}            \* weights a caller may give, in tenths
HScores == {8, 9, 10}            \* raw scores a strategy may report, in tenths
ChunkIds == {"X", "Y"}

\* the strategies a HybridRetriever is built from: a prefix of this list,
\* each strategy tagging its results with its own source
SourceTags == <<"vector", "graph">>
MaxStrategies == Len(SourceTags)

(***************************************************************************)
(* Exact rationals.                                                        *)
(***************************************************************************)
Abs(a) == IF a < 0 THEN -a ELSE a

RECURSIVE GCD(_, _)
GCD(a, b) == IF b = 0 THEN a ELSE GCD(b, a % b)

Rat(n, d) ==
    LET g == GCD(Abs(n), Abs(d))
        s == IF d < 0 THEN -1 ELSE 1
    IN  <<(s * n) \div g, (s * d) \div g>>

RatAdd(a, b) == Rat(a[1] * b[2] + b[1] * a[2], a[2] * b[2])
RatMul(a, b) == Rat(a[1] * b[1], a[2] * b[2])
RatLess(a, b) == a[1] * b[2] < b[1] * a[2]
RatOfInt(k) == <<k, 1>>

RECURSIVE SumSeq(_)
SumSeq(s) == IF s = <<>> THEN 0 ELSE Head(s) + SumSeq(Tail(s))

RECURSIVE RatSumSeq(_)
RatSumSeq(s) == IF s = <<>> THEN RatOfInt(0) ELSE RatAdd(Head(s), RatSumSeq(Tail(s)))

(***************************************************************************)
(* HybridRetriever.__init__.  `weights` is [given, list]: given = FALSE is *)
(* Python's None.  The result is the exception raised ("" when none) and   *)
(* self._weights.                                                          *)
(***************************************************************************)
NoWeights == [given |-> FALSE, list |-> <<>>]
GivenWeights(list) == [given |-> TRUE, list |-> list]

\* mutant: the given weights are kept as they are, not divided by their sum
HybridRetriever_init_Unnormalized(retrievers, weights) ==
    LET n == Len(retrievers) IN
    IF ~weights.given
    THEN IF n = 0
         THEN [error |-> "ZeroDivisionError", weights |-> <<>>]
         ELSE [error |-> "", weights |-> [i \in 1..n |-> Rat(1, n)]]
    ELSE IF Len(weights.list) # n
         THEN [error |-> "ValueError", weights |-> <<>>]
         ELSE [error |-> "", weights |-> [i \in 1..n |-> Rat(weights.list[i], 10)]]

\* mutant: only a weight list shorter than the strategy list is rejected
HybridRetriever_init_ShortOnly(retrievers, weights) ==
    LET n == Len(retrievers) IN
    IF ~weights.given
    THEN IF n = 0
         THEN [error |-> "ZeroDivisionError", weights |-> <<>>]
         ELSE [error |-> "", weights |-> [i \in 1..n |-> Rat(1, n)]]
    ELSE IF Len(weights.list) < n
         THEN [error |-> "ValueError", weights |-> <<>>]
         ELSE LET total == SumSeq(weights.list) IN
              IF n > 0 /\ total = 0
              THEN [error |-> "ZeroDivisionError", weights |-> <<>>]
              ELSE [error |-> "",
                    weights |-> [i \in 1..n |-> Rat(weights.list[i], total)]]

HybridRetriever_init(retrievers, weights) ==
    LET n == Len(retrievers) IN
    IF ~weights.given
    THEN IF n = 0
         THEN [error |-> "ZeroDivisionError", weights |-> <<>>]
         ELSE [error |-> "", weights |-> [i \in 1..n |-> Rat(1, n)]]
    ELSE IF Len(weights.list) # n
         THEN [error |-> "ValueError", weights |-> <<>>]
         ELSE LET total == SumSeq(weights.list) IN
              IF n > 0 /\ total = 0
              THEN [error |-> "ZeroDivisionError", weights |-> <<>>]
              ELSE [error |-> "",
                    weights |-> [i \in 1..n |-> Rat(weights.list[i], total)]]

(***************************************************************************)
(* Dicts (metadata) are functions from string keys to integers.            *)
(***************************************************************************)
EmptyDict == [k \in {} |-> 0]

\* {**d, key: value}
DictPut(d, key, value) ==
    [k \in (DOMAIN d) \cup {key} |-> IF k = key THEN value ELSE d[k]]

(***************************************************************************)
(* What a strategy may return.  The strategy at position i tags its        *)
(* results with SourceTags[i], delivers its own Chunk object for an id     *)
(* (its content names the strategy), and its own metadata.                 *)
(***************************************************************************)
StrategyChunk(i, id) == [id |-> id, content |-> <<SourceTags[i], id>>]

StrategyMetadata(i) == DictPut(EmptyDict, SourceTags[i], i)

StrategyResult(i, id, score) ==
    [chunk |-> StrategyChunk(i, id), score |-> score,
     source |-> SourceTags[i], metadata |-> StrategyMetadata(i)]

StrategyResults(i) == {StrategyResult(i, id, s) : id \in ChunkIds, s \in HScores}

SeqsUpTo(S, n) == UNION {[1..k -> S] : k \in 0..n}

Range(s) == {s[k] : k \in 1..Len(s)}

IdsOf(results) == {results[k].chunk.id : k \in 1..Len(results)}

\* no chunk id occurs twice in the list
DistinctIds(results) ==
    \A k, l \in 1..Len(results) : results[k].chunk.id = results[l].chunk.id => k = l

(***************************************************************************)
(* HybridRetriever.retrieve: the body of the loop over one strategy's      *)
(* results, and the final sort and truncation.                             *)
(***************************************************************************)
ScoreKey(source) == source \o "_score"

IndexOfId(all, id) ==
    IF \E k \in 1..Len(all) : all[k].chunk.id = id
    THEN CHOOSE k \in 1..Len(all) : all[k].chunk.id = id
    ELSE 0

\* mutant: a later result replaces the accumulated score instead of adding to it
FuseOne_Overwrite(all, result, weight) ==
    LET chunk_id == result.chunk.id
        weighted_score == RatMul(RatOfInt(result.score), weight)
        k == IndexOfId(all, chunk_id)
        entry == [chunk |-> result.chunk, score |-> weighted_score, source |-> "hybrid",
                  metadata |-> DictPut(result.metadata, ScoreKey(result.source), result.score)]
    IN  IF k # 0
        THEN [all EXCEPT ![k] =
                 [entry EXCEPT !.chunk = all[k].chunk,
                               !.metadata = DictPut(all[k].metadata,
                                                    ScoreKey(result.source), result.score)]]
        ELSE Append(all, entry)

\* mutant: a later result replaces the chunk and the metadata of its id
FuseOne_LatestChunk(all, result, weight) ==
    LET chunk_id == result.chunk.id
        weighted_score == RatMul(RatOfInt(result.score), weight)
        k == IndexOfId(all, chunk_id)
        entry == [chunk |-> result.chunk, score |-> weighted_score, source |-> "hybrid",
                  metadata |-> DictPut(result.metadata, ScoreKey(result.source), result.score)]
    IN  IF k # 0
        THEN [all EXCEPT ![k] =
                 [entry EXCEPT !.score = RatAdd(all[k].score, weighted_score)]]
        ELSE Append(all, entry)

FuseOne(all, result, weight) ==
    LET chunk_id == result.chunk.id
        weighted_score == RatMul(RatOfInt(result.score), weight)
        k == IndexOfId(all, chunk_id)
    IN  IF k # 0
        THEN LET existing == all[k] IN
             [all EXCEPT ![k] =
                 [chunk |-> existing.chunk,
                  score |-> RatAdd(existing.score, weighted_score),
                  source |-> "hybrid",
                  metadata |-> DictPut(existing.metadata,
                                       ScoreKey(result.source), result.score)]]
        ELSE Append(all,
                 [chunk |-> result.chunk,
                  score |-> weighted_score,
                  source |-> "hybrid",
                  metadata |-> DictPut(result.metadata,
                                       ScoreKey(result.source), result.score)])

RECURSIVE Fuse(_, _, _)
Fuse(all, results, weight) ==
    IF results = <<>> THEN all
    ELSE Fuse(FuseOne(all, Head(results), weight), Tail(results), weight)

\* sorted(..., key=score, reverse=True): stable, equal keys keep their order
\* mutant: an entry is placed before the entries of equal score
RECURSIVE InsertDesc_Unstable(_, _)
InsertDesc_Unstable(sorted, r) ==
    IF sorted = <<>> THEN <<r>>
    ELSE IF ~RatLess(r.score, Head(sorted).score)
         THEN <<r>> \o sorted
         ELSE <<Head(sorted)>> \o InsertDesc_Unstable(Tail(sorted), r)

RECURSIVE InsertDesc(_, _)
InsertDesc(sorted, r) ==
    IF sorted = <<>> THEN <<r>>
    ELSE IF RatLess(Head(sorted).score, r.score)
         THEN <<r>> \o sorted
         ELSE <<Head(sorted)>> \o InsertDesc(Tail(sorted), r)

RECURSIVE SortedDesc(_)
SortedDesc(s) ==
    IF s = <<>> THEN <<>>
    ELSE InsertDesc(SortedDesc(SubSeq(s, 1, Len(s) - 1)), s[Len(s)])

Min(a, b) == IF a < b THEN a ELSE b

\* s[:limit] for limit >= 0
Truncate(s, limit) == SubSeq(s, 1, Min(limit, Len(s)))

HybridFinish(all, limit) == Truncate(SortedDesc(all), limit)

ResultsReturned == SumSeq([j \in 1..Len(hy_outputs) |-> Len(hy_outputs[j])])

\* the query and the options (**kwargs) a caller of retrieve may give
HybridQueries == {"q1", "q2"}
HybridOptions == {"none", "f1"}

\* mutant: the strategy is asked for the caller's limit
StrategyCall_CallerLimit(i, query, limit, kwargs) ==
    [retriever |-> i, query |-> query, limit |-> limit, kwargs |-> kwargs]

\* retriever.retrieve(query, limit=limit * 2, **kwargs)
StrategyCall(i, query, limit, kwargs) ==
    [retriever |-> i, query |-> query, limit |-> limit * 2, kwargs |-> kwargs]

(***************************************************************************)
(* Actions of the HybridRetriever.                                         *)
(***************************************************************************)
HybridInit ==
    /\ hy_pc = "new"
    /\ hy_given = NoWeights
    /\ hy_retrievers = <<>>
    /\ hy_weights = <<>>
    /\ hy_error = ""
    /\ hy_query = ""
    /\ hy_limit = 0
    /\ hy_kwargs = "none"
    /\ hy_i = 0
    /\ hy_calls = <<>>
    /\ hy_outputs = <<>>
    /\ hy_all_results = <<>>
    /\ hy_result = <<>>

\* HybridRetriever(retrievers, weights)
HybridConstruct ==
    /\ hy_pc = "new"
    /\ \E n \in 0..MaxStrategies :
       \E weights \in {NoWeights} \cup
                      {GivenWeights(l) : l \in SeqsUpTo(HWeights, MaxStrategies + 1)} :
          LET retrievers == [i \in 1..n |-> SourceTags[i]]
              made == HybridRetriever_init(retrievers, weights)
          IN  /\ hy_given' = weights
              /\ hy_error' = made.error
              /\ hy_pc' = IF made.error = "" THEN "idle" ELSE "failed"
              /\ hy_retrievers' = retrievers
              /\ hy_weights' = made.weights
    /\ UNCHANGED <<hy_query, hy_limit, hy_kwargs, hy_i, hy_calls, hy_outputs,
                   hy_all_results, hy_result>>
    /\ UNCHANGED <<ms_vars, cb_vars, gr_vars, vr_vars, pl_vars, fc_vars, ci_vars, qd_vars>>

\* retrieve(query, limit) is entered; with no strategy the loop body never
\* runs and the call returns at once
HybridRetrieveCall ==
    /\ hy_pc = "idle"
    /\ \E query \in HybridQueries, limit \in 0..MaxLimit, kwargs \in HybridOptions :
          /\ hy_given' = NoWeights
          /\ hy_query' = query
          /\ hy_limit' = limit
          /\ hy_kwargs' = kwargs
          /\ hy_i' = 1
          /\ hy_all_results' = <<>>
          /\ IF Len(hy_retrievers) = 0
             THEN /\ hy_pc' = "returned"
                  /\ hy_result' = HybridFinish(<<>>, limit)
             ELSE /\ hy_pc' = "loop"
                  /\ hy_result' = <<>>
    /\ UNCHANGED <<hy_retrievers, hy_weights, hy_error, hy_calls, hy_outputs>>
    /\ UNCHANGED <<ms_vars, cb_vars, gr_vars, vr_vars, pl_vars, fc_vars, ci_vars, qd_vars>>

\* strategy hy_i is called with limit * 2 and returns `results`, which are
\* fused; after the last strategy the fused entries are sorted and cut
HybridStrategyReturns ==
    /\ hy_pc = "loop"
    /\ hy_i <= Len(hy_retrievers)
    /\ \E results \in SeqsUpTo(StrategyResults(hy_i),
                               Min(hy_limit * 2, MaxResults - ResultsReturned)) :
          LET all == Fuse(hy_all_results, results, hy_weights[hy_i]) IN
          /\ hy_calls' = Append(hy_calls, StrategyCall(hy_i, hy_query, hy_limit, hy_kwargs))
          /\ hy_outputs' = Append(hy_outputs, results)
          /\ hy_all_results' = all
          /\ hy_i' = hy_i + 1
          /\ IF hy_i = Len(hy_retrievers)
             THEN /\ hy_pc' = "returned"
                  /\ hy_result' = HybridFinish(all, hy_limit)
             ELSE /\ hy_pc' = "loop"
                  /\ hy_result' = <<>>
    /\ UNCHANGED <<hy_given, hy_retrievers, hy_weights, hy_error, hy_query, hy_limit,
                   hy_kwargs>>
    /\ UNCHANGED <<ms_vars, cb_vars, gr_vars, vr_vars, pl_vars, fc_vars, ci_vars, qd_vars>>

\* mutant: the failure is caught and the strategy's contribution omitted
HybridStrategyFails_Swallowed ==
    /\ hy_pc = "loop"
    /\ hy_i <= Len(hy_retrievers)
    /\ hy_calls' = Append(hy_calls, StrategyCall(hy_i, hy_query, hy_limit, hy_kwargs))
    /\ hy_i' = hy_i + 1
    /\ IF hy_i = Len(hy_retrievers)
       THEN /\ hy_pc' = "returned"
            /\ hy_result' = HybridFinish(hy_all_results, hy_limit)
       ELSE /\ hy_pc' = "loop"
            /\ hy_result' = <<>>
    /\ UNCHANGED <<hy_given, hy_retrievers, hy_weights, hy_error, hy_query, hy_limit,
                   hy_kwargs, hy_outputs, hy_all_results>>
    /\ UNCHANGED <<ms_vars, cb_vars, gr_vars, vr_vars, pl_vars, fc_vars, ci_vars, qd_vars>>

\* strategy hy_i is called and raises: nothing in retrieve catches it
HybridStrategyFails ==
    /\ hy_pc = "loop"
    /\ hy_i <= Len(hy_retrievers)
    /\ hy_calls' = Append(hy_calls, StrategyCall(hy_i, hy_query, hy_limit, hy_kwargs))
    /\ hy_pc' = "raised"
    /\ hy_error' = "UpstreamFailure"
    /\ UNCHANGED <<hy_given, hy_retrievers, hy_weights, hy_query, hy_limit, hy_kwargs, hy_i,
                   hy_outputs, hy_all_results, hy_result>>
    /\ UNCHANGED <<ms_vars, cb_vars, gr_vars, vr_vars, pl_vars, fc_vars, ci_vars, qd_vars>>

HybridNext ==
    \/ HybridConstruct
    \/ HybridRetrieveCall
    \/ HybridStrategyReturns
    \/ HybridStrategyFails

(***************************************************************************)
(* ColBERTRetriever._compute_maxsim on integer matrices.                   *)
(***************************************************************************)
TokenValues == {-1, 0, 1}
TokenVectors == TokenValues \X TokenValues       \* rows of dimension 2

Matrices(rows) == UNION {[1..k -> TokenVectors] : k \in 1..rows}

\* doc_tokens.T
Transpose(m) == [c \in 1..Len(m[1]) |-> [r \in 1..Len(m) |-> m[r][c]]]

\* np.dot(a, b) for an n x k matrix a and a k x m matrix b
MatMul(a, b) ==
    [r \in 1..Len(a) |->
        [c \in 1..Len(b[1]) |-> SumSeq([k \in 1..Len(b) |-> a[r][k] * b[k][c]])]]

MaxOfSeq(row) == CHOOSE m \in Range(row) : \A x \in Range(row) : x <= m

\* mutant: the maximum is taken over the query tokens (axis 0), not the
\* document tokens
compute_maxsim_Axis0(query_tokens, doc_tokens) ==
    LET sim_matrix == MatMul(query_tokens, Transpose(doc_tokens))
        max_sims == [c \in 1..Len(sim_matrix[1]) |->
                        MaxOfSeq([r \in 1..Len(sim_matrix) |-> sim_matrix[r][c]])]
    IN  SumSeq(max_sims)

compute_maxsim(query_tokens, doc_tokens) ==
    LET sim_matrix == MatMul(query_tokens, Transpose(doc_tokens))
        max_sims == [r \in 1..Len(sim_matrix) |-> MaxOfSeq(sim_matrix[r])]
    IN  SumSeq(max_sims)

MaxSimInit ==
    /\ ms_pc = "args"
    /\ ms_query_tokens \in Matrices(MaxQueryTokens)
    /\ ms_doc_tokens \in Matrices(MaxDocTokens)
    /\ ms_score = 0

MaxSimIdle ==
    /\ ms_pc = "idle"
    /\ ms_query_tokens = <<>>
    /\ ms_doc_tokens = <<>>
    /\ ms_score = 0

\* self._compute_maxsim(query_tokens, doc_tokens)
MaxSimCall ==
    /\ ms_pc = "args"
    /\ ms_score' = compute_maxsim(ms_query_tokens, ms_doc_tokens)
    /\ ms_pc' = "done"
    /\ UNCHANGED <<ms_query_tokens, ms_doc_tokens>>
    /\ UNCHANGED <<hy_vars, cb_vars, gr_vars, vr_vars, pl_vars, fc_vars, ci_vars, qd_vars>>

MaxSimNext == MaxSimCall

(***************************************************************************)
(* ColBERTRetriever.retrieve.  The ColBERT model and the vector store are  *)
(* outside the repository: the token embedder is a fixed function of the   *)
(* text that returns at least one row, the vector search returns any list  *)
(* of candidates with distinct chunk ids, no longer than the limit given.  *)
(***************************************************************************)
Queries == {"q1", "q2"}
Contents == {"a", "b", "c"}
CandidateIds == {"c1", "c2", "c3"}
VectorScores == {5, 9}

\* self._colbert.embed_query_tokens(query)
embed_query_tokens(query) ==
    IF query = "q1" THEN << <<1, 0>> >> ELSE << <<1, 0>>, <<0, 1>> >>

\* self._colbert.embed_doc_tokens(doc_content)
embed_doc_tokens(doc) ==
    CASE doc = "a" -> << <<1, 0>>, <<0, 1>> >>
      [] doc = "b" -> << <<1, 2>> >>
      [] OTHER     -> << <<-1, 0>>, <<0, -1>> >>

Candidates ==
    {[chunk |-> [id |-> id, content |-> c], score |-> v, source |-> "vector",
      metadata |-> DictPut(EmptyDict, "page", v)] :
        id \in CandidateIds, c \in Contents, v \in VectorScores}

\* self._vector_store.search(..., limit=n)
SearchResults(n) ==
    {l \in SeqsUpTo(Candidates, Min(n, MaxCandidates)) : DistinctIds(l)}

\* mutant: the entry keeps the score of the vector search
RerankOne_KeepVectorScore(result, query_tokens) ==
    LET doc_tokens == embed_doc_tokens(result.chunk.content)
        maxsim_score == compute_maxsim(query_tokens, doc_tokens)
    IN  [chunk |-> result.chunk,
         score |-> result.score,
         source |-> "colbert",
         metadata |-> DictPut(DictPut(result.metadata, "original_score", result.score),
                              "maxsim_score", maxsim_score)]

\* the body of the loop over the candidates
RerankOne(result, query_tokens) ==
    LET doc_content == result.chunk.content
        doc_tokens == embed_doc_tokens(doc_content)
        maxsim_score == compute_maxsim(query_tokens, doc_tokens)
    IN  [chunk |-> result.chunk,
         score |-> maxsim_score,
         source |-> "colbert",
         metadata |-> DictPut(DictPut(result.metadata, "original_score", result.score),
                              "maxsim_score", maxsim_score)]

\* mutant: the sort is ascending
RECURSIVE RerankInsert_Ascending(_, _)
RerankInsert_Ascending(sorted, r) ==
    IF sorted = <<>> THEN <<r>>
    ELSE IF r.score < Head(sorted).score
         THEN <<r>> \o sorted
         ELSE <<Head(sorted)>> \o RerankInsert_Ascending(Tail(sorted), r)

\* reranked.sort(key=score, reverse=True): stable, equal keys keep their order
RECURSIVE RerankInsert(_, _)
RerankInsert(sorted, r) ==
    IF sorted = <<>> THEN <<r>>
    ELSE IF Head(sorted).score < r.score
         THEN <<r>> \o sorted
         ELSE <<Head(sorted)>> \o RerankInsert(Tail(sorted), r)

RECURSIVE RerankSort(_)
RerankSort(s) ==
    IF s = <<>> THEN <<>>
    ELSE RerankInsert(RerankSort(SubSeq(s, 1, Len(s) - 1)), s[Len(s)])

ColBERTFinish(reranked, limit) == Truncate(RerankSort(reranked), limit)

Call(op, arg) == [op |-> op, arg |-> arg]

\* mutant: the candidates are searched with the caller's limit
SearchLimit_CallerLimit(limit) == limit

\* limit=limit * 3
SearchLimit(limit) == limit * 3

ColBERTInit ==
    /\ cb_pc = "idle"
    /\ cb_query = ""
    /\ cb_limit = 0
    /\ cb_query_tokens = <<>>
    /\ cb_candidates = <<>>
    /\ cb_calls = <<>>
    /\ cb_reranked = <<>>
    /\ cb_result = <<>>

\* retrieve(query, limit) up to the loop: the query is embedded and the
\* vector store searched; with no candidate the call returns at once
ColBERTRetrieveCall ==
    /\ cb_pc = "idle"
    /\ \E query \in Queries, limit \in 0..MaxLimit :
       \E candidates \in SearchResults(SearchLimit(limit)) :
          /\ cb_query' = query
          /\ cb_limit' = limit
          /\ cb_query_tokens' = embed_query_tokens(query)
          /\ cb_candidates' = candidates
          /\ cb_calls' = <<Call("embed_query_tokens", 0), Call("embed_text", 0),
                           Call("search", SearchLimit(limit))>>
          /\ cb_reranked' = <<>>
          /\ IF candidates = <<>>
             THEN /\ cb_pc' = "returned"
                  /\ cb_result' = ColBERTFinish(<<>>, limit)
             ELSE /\ cb_pc' = "loop"
                  /\ cb_result' = <<>>
    /\ UNCHANGED <<hy_vars, ms_vars, gr_vars, vr_vars, pl_vars, fc_vars, ci_vars, qd_vars>>

\* one turn of the loop; after the last candidate the entries are sorted
\* and cut
ColBERTRerankNext ==
    /\ cb_pc = "loop"
    /\ LET k == Len(cb_reranked) + 1
           reranked == Append(cb_reranked, RerankOne(cb_candidates[k], cb_query_tokens))
       IN  /\ cb_calls' = Append(cb_calls, Call("embed_doc_tokens", k))
           /\ cb_reranked' = reranked
           /\ IF k = Len(cb_candidates)
              THEN /\ cb_pc' = "returned"
                   /\ cb_result' = ColBERTFinish(reranked, cb_limit)
              ELSE /\ cb_pc' = "loop"
                   /\ cb_result' = <<>>
    /\ UNCHANGED <<cb_query, cb_limit, cb_query_tokens, cb_candidates>>
    /\ UNCHANGED <<hy_vars, ms_vars, gr_vars, vr_vars, pl_vars, fc_vars, ci_vars, qd_vars>>

ColBERTNext ==
    \/ ColBERTRetrieveCall
    \/ ColBERTRerankNext

(***************************************************************************)
(* GraphRetriever.  Text is a sequence of one-character strings.  A node   *)
(* without an id (None) has id "".  The graph store is outside the         *)
(* retriever: its match query returns any list of nodes, with distinct ids *)
(* where they have one, and get_subgraph any lists of nodes and            *)
(* relationships; a relationship is a dict that may lack the key "type".   *)
(***************************************************************************)
PreviewLen == 200

Depths == {1, 2}

MainPrefix == <<"M", "a", "i", "n", ":", " ">>
RelatedPrefix == <<"R", "e", "l", "a", "t", "e", "d", ":", " ">>
Ellipsis == <<".", ".", ".">>
Newline == <<"\n">>
DefaultRelType == <<"R", "E", "L", "A", "T", "E", "D">>
RelatedTo == <<"R", "E", "L", "A", "T", "E", "D", "_", "T", "O">>
Contains == <<"C", "O", "N", "T", "A", "I", "N", "S">>

LongContent == [k \in 1..PreviewLen + 1 |-> "z"]

MatchedNodes ==
    {[id |-> "n1", content |-> <<"A">>],
     [id |-> "n2", content |-> <<"C">>],
     [id |-> "", content |-> <<"A">>]}

SubgraphNodes ==
    {[id |-> "n1", properties |-> [content |-> <<"A">>]],
     [id |-> "n2", properties |-> [content |-> <<>>]],
     [id |-> "n2", properties |-> [content |-> <<"B">>]],
     [id |-> "n2", properties |-> [content |-> LongContent]]}

Relationships == {[type |-> RelatedTo], [type |-> Contains], EmptyDict}

\* what self._graph_store.query(cypher, {"query": query, "limit": limit}) may return
MatchResults(limit) ==
    {l \in SeqsUpTo(MatchedNodes, limit) :
        \A k, m \in 1..Len(l) : (l[k].id # "" /\ l[k].id = l[m].id) => k = m}

NoSubgraph == [present |-> FALSE, nodes |-> <<>>, relationships |-> <<>>]

\* what self._graph_store.get_subgraph(node_id, depth) may return, of at most n items
Subgraphs(n) ==
    UNION {{[present |-> TRUE, nodes |-> ns, relationships |-> rs] :
               ns \in [1..a -> SubgraphNodes],
               rs \in SeqsUpTo(Relationships, n - a)} : a \in 0..n}

SubgraphItems(sg) == Len(sg.nodes) + Len(sg.relationships)

\* s[:n]
Take(s, n) == SubSeq(s, 1, Min(n, Len(s)))

\* sep.join(parts)
RECURSIVE Join(_, _)
Join(parts, sep) ==
    IF parts = <<>> THEN <<>>
    ELSE IF Len(parts) = 1 THEN parts[1]
    ELSE parts[1] \o sep \o Join(Tail(parts), sep)

\* rel.get('type', 'RELATED')
RelType(rel) == IF "type" \in DOMAIN rel THEN rel.type ELSE DefaultRelType

\* the loop over subgraph["nodes"], appending to parts
RECURSIVE AddRelatedParts(_, _, _)
AddRelatedParts(parts, nodes, center_id) ==
    IF nodes = <<>> THEN parts
    ELSE LET node == Head(nodes)
             content == node.properties.content
         IN  AddRelatedParts(
                 IF node.id # center_id /\ content # <<>>
                 THEN Append(parts, RelatedPrefix \o Take(content, PreviewLen) \o Ellipsis)
                 ELSE parts,
                 Tail(nodes), center_id)

\* the loop over subgraph["relationships"], appending to parts
RECURSIVE AddRelationParts(_, _)
AddRelationParts(parts, rels) ==
    IF rels = <<>> THEN parts
    ELSE AddRelationParts(Append(parts, <<"[">> \o RelType(Head(rels)) \o <<"]">>),
                          Tail(rels))

\* mutant: the relationship tags are written before the related nodes
build_context_from_subgraph_TagsFirst(center_node, subgraph) ==
    IF ~subgraph.present
    THEN center_node.content
    ELSE Join(AddRelatedParts(
                  AddRelationParts(<<MainPrefix \o center_node.content>>,
                                   subgraph.relationships),
                  subgraph.nodes, center_node.id),
              Newline)

\* GraphRetriever._build_context_from_subgraph
build_context_from_subgraph(center_node, subgraph) ==
    IF ~subgraph.present
    THEN center_node.content
    ELSE Join(AddRelationParts(
                  AddRelatedParts(<<MainPrefix \o center_node.content>>,
                                  subgraph.nodes, center_node.id),
                  subgraph.relationships),
              Newline)

\* the RetrievalResult built for one record
GraphResult(node, subgraph) ==
    [chunk |-> [content |-> build_context_from_subgraph(node, subgraph),
                chunk_type |-> "text",
                source_document_id |-> "graph",
                id |-> node.id,
                metadata |-> [original_content |-> node.content,
                              subgraph_nodes |-> Len(subgraph.nodes),
                              subgraph_relations |-> Len(subgraph.relationships)]],
     score |-> 1,
     source |-> "graph",
     metadata |-> [subgraph |-> subgraph]]

\* self._graph_store.get_subgraph(node_id, depth=self._depth), with the
\* default depth in place of the configured one
SubgraphCall_DefaultDepth(node_id, depth) ==
    [op |-> "get_subgraph", arg |-> 1, node |-> node_id]

\* self._graph_store.get_subgraph(node_id, depth=self._depth)
SubgraphCall(node_id, depth) ==
    [op |-> "get_subgraph", arg |-> depth, node |-> node_id]

GraphItemsReturned ==
    SumSeq([k \in 1..Len(gr_subgraphs) |-> SubgraphItems(gr_subgraphs[k])])

GraphInit ==
    /\ gr_pc = "idle"
    /\ gr_depth \in Depths
    /\ gr_limit = 0
    /\ gr_nodes = <<>>
    /\ gr_subgraphs = <<>>
    /\ gr_calls = <<>>
    /\ gr_results = <<>>

\* retrieve(query, limit) up to the loop: the match query is run; with no
\* record the call returns the empty list
GraphRetrieveCall ==
    /\ gr_pc = "idle"
    /\ \E limit \in 0..MaxLimit :
       \E nodes \in MatchResults(limit) :
          /\ gr_limit' = limit
          /\ gr_nodes' = nodes
          /\ gr_calls' = <<Call("query", limit)>>
          /\ gr_pc' = IF nodes = <<>> THEN "returned" ELSE "loop"
    /\ gr_subgraphs' = <<>>
    /\ gr_results' = <<>>
    /\ UNCHANGED gr_depth
    /\ UNCHANGED <<hy_vars, ms_vars, cb_vars, vr_vars, pl_vars, fc_vars, ci_vars, qd_vars>>

\* one turn of the loop, for a record whose node has an id: its subgraph is
\* requested and the result built from it
GraphExpandNode ==
    /\ gr_pc = "loop"
    /\ LET k == Len(gr_results) + 1
           node == gr_nodes[k]
       IN  /\ node.id # ""
           /\ \E subgraph \in Subgraphs(MaxSubgraphItems - GraphItemsReturned) :
                 /\ gr_subgraphs' = Append(gr_subgraphs, subgraph)
                 /\ gr_results' = Append(gr_results, GraphResult(node, subgraph))
           /\ gr_calls' = Append(gr_calls, SubgraphCall(node.id, gr_depth))
           /\ gr_pc' = IF k = Len(gr_nodes) THEN "returned" ELSE "loop"
    /\ UNCHANGED <<gr_depth, gr_limit, gr_nodes>>
    /\ UNCHANGED <<hy_vars, ms_vars, cb_vars, vr_vars, pl_vars, fc_vars, ci_vars, qd_vars>>

\* one turn of the loop, for a record whose node has no id: no subgraph is
\* requested
GraphPlainNode ==
    /\ gr_pc = "loop"
    /\ LET k == Len(gr_results) + 1
           node == gr_nodes[k]
       IN  /\ node.id = ""
           /\ gr_subgraphs' = Append(gr_subgraphs, NoSubgraph)
           /\ gr_results' = Append(gr_results, GraphResult(node, NoSubgraph))
           /\ gr_pc' = IF k = Len(gr_nodes) THEN "returned" ELSE "loop"
    /\ UNCHANGED <<gr_depth, gr_limit, gr_nodes, gr_calls>>
    /\ UNCHANGED <<hy_vars, ms_vars, cb_vars, vr_vars, pl_vars, fc_vars, ci_vars, qd_vars>>

GraphNext ==
    \/ GraphRetrieveCall
    \/ GraphExpandNode
    \/ GraphPlainNode

(***************************************************************************)
(* VectorRetriever.retrieve.  The embedder and the vector store are        *)
(* injected: the embedder is a fixed function of the text, the search      *)
(* returns at most `limit` results with distinct chunk ids, none from an   *)
(* empty collection, and raises for a collection that does not exist; a    *)
(* call on either may fail.                                                *)
(***************************************************************************)
Filters == {"none", "f1"}
CollectionStates == {"missing", "empty", "filled"}

\* self._embedding_adapter.embed_text(query)
embed_text(query) == <<"v", query>>

\* self._vector_store_adapter.search(collection_name=..., query_vector=...,
\*                                   limit=limit, filter=filter_dict)
SearchCall(collection, query_vector, limit, filter) ==
    [op |-> "search", collection |-> collection, vector |-> query_vector,
     limit |-> limit, filter |-> filter]

EmbedCall(query) ==
    [op |-> "embed_text", collection |-> "", vector |-> <<"v", query>>,
     limit |-> 0, filter |-> "none"]

\* mutant: the results are cut to one less than the store returned
VectorReturn_DropLast(results) ==
    SubSeq(results, 1, Len(results) - 1)

\* return results
VectorReturn(results) == results

VectorInit ==
    /\ vr_pc = "idle"
    /\ vr_collection \in CollectionStates
    /\ vr_query = ""
    /\ vr_limit = 0
    /\ vr_filter = "none"
    /\ vr_calls = <<>>
    /\ vr_found = <<>>
    /\ vr_result = <<>>
    /\ vr_error = ""

VectorIdle == VectorInit /\ vr_collection = "empty"

\* retrieve(query, limit, **kwargs) up to the search: the query is embedded
VectorRetrieveCall ==
    /\ vr_pc = "idle"
    /\ \E query \in Queries, limit \in 0..MaxLimit, filter \in Filters :
          /\ vr_query' = query
          /\ vr_limit' = limit
          /\ vr_filter' = filter
          /\ vr_calls' = <<EmbedCall(query)>>
    /\ vr_pc' = "embedded"
    /\ UNCHANGED <<vr_collection, vr_found, vr_result, vr_error>>
    /\ UNCHANGED <<hy_vars, ms_vars, cb_vars, gr_vars, pl_vars, fc_vars, ci_vars, qd_vars>>

\* embed_text raises: the exception leaves retrieve before any search
VectorEmbedFails ==
    /\ vr_pc = "idle"
    /\ \E query \in Queries, limit \in 0..MaxLimit, filter \in Filters :
          /\ vr_query' = query
          /\ vr_limit' = limit
          /\ vr_filter' = filter
          /\ vr_calls' = <<EmbedCall(query)>>
    /\ vr_pc' = "raised"
    /\ vr_error' = "UpstreamFailure"
    /\ UNCHANGED <<vr_collection, vr_found, vr_result>>
    /\ UNCHANGED <<hy_vars, ms_vars, cb_vars, gr_vars, pl_vars, fc_vars, ci_vars, qd_vars>>

\* the search returns and retrieve returns its results
VectorSearchReturns ==
    /\ vr_pc = "embedded"
    /\ vr_collection # "missing"
    /\ \E results \in IF vr_collection = "empty" THEN {<<>>}
                      ELSE SearchResults(vr_limit) :
          /\ vr_found' = results
          /\ vr_result' = VectorReturn(results)
    /\ vr_calls' = Append(vr_calls,
                          SearchCall("collection", embed_text(vr_query), vr_limit, vr_filter))
    /\ vr_pc' = "returned"
    /\ UNCHANGED <<vr_collection, vr_query, vr_limit, vr_filter, vr_error>>
    /\ UNCHANGED <<hy_vars, ms_vars, cb_vars, gr_vars, pl_vars, fc_vars, ci_vars, qd_vars>>

\* the search raises (always so for a collection that does not exist): the
\* exception leaves retrieve
VectorSearchFails ==
    /\ vr_pc = "embedded"
    /\ vr_error' = IF vr_collection = "missing" THEN "NotFound" ELSE "UpstreamFailure"
    /\ vr_calls' = Append(vr_calls,
                          SearchCall("collection", embed_text(vr_query), vr_limit, vr_filter))
    /\ vr_pc' = "raised"
    /\ UNCHANGED <<vr_collection, vr_query, vr_limit, vr_filter, vr_found, vr_result>>
    /\ UNCHANGED <<hy_vars, ms_vars, cb_vars, gr_vars, pl_vars, fc_vars, ci_vars, qd_vars>>

VectorNext ==
    \/ VectorRetrieveCall
    \/ VectorEmbedFails
    \/ VectorSearchReturns
    \/ VectorSearchFails

(***************************************************************************)
(* PolyRAGPipeline.  Its collaborators are injected: the file system, the  *)
(* loader, the chunker, the embedder, the vector store, the retriever and  *)
(* the generator.  What a file holds decides what loading and chunking it  *)
(* give; the embedder is a fixed function of the text; calls on the        *)
(* store, the embedder, the retriever and the generator may fail.          *)
(***************************************************************************)
MaxOps == 2
MaxFiles == 3

FileNames == {"a.txt", "b.md", "c.txt", "e.txt", "d.png"}

\* ext in self._document_loader.supported_extensions
Supported(file) == file \in {"a.txt", "b.md", "c.txt", "e.txt"}

\* whether self._document_loader.load(file) returns (c.txt is corrupt, the
\* loader rejects d.png)
Loads(file) == file \in {"a.txt", "b.md", "e.txt"}

\* the texts self._chunker.chunk(doc) cuts the document of a file into
ChunkTexts(file) ==
    CASE file = "a.txt" -> <<"a1", "a2">>
      [] file = "b.md"  -> <<"b1">>
      [] OTHER          -> <<>>

FilePaths == {[kind |-> "file", files |-> <<f>>] : f \in FileNames}
\* os.walk(path) lists each file of the directory once, in any order
DirPaths ==
    {[kind |-> "dir", files |-> l] :
        l \in {s \in SeqsUpTo(FileNames, MaxFiles) :
                  \A k, m \in 1..Len(s) : s[k] = s[m] => k = m}}
MissingPath == [kind |-> "missing", files |-> <<>>]
Paths == FilePaths \cup DirPaths \cup {MissingPath}

PCall(op, arg, n) == [op |-> op, arg |-> arg, n |-> n]

\* mutant: the collection is created on every call
ensure_collection_Always(initialized, store) ==
    [initialized |-> TRUE,
     store |-> [exists |-> TRUE, batches |-> {}],
     created |-> TRUE]

\* self._ensure_collection(), when create_collection returns: the store
\* recreates the collection, which drops what it held
ensure_collection(initialized, store) ==
    IF ~initialized
    THEN [initialized |-> TRUE,
          store |-> [exists |-> TRUE, batches |-> {}],
          created |-> TRUE]
    ELSE [initialized |-> initialized, store |-> store, created |-> FALSE]

\* mutant: the walk stops at the first file that fails to load
RECURSIVE LoadDirectory_AbortOnFailure(_)
LoadDirectory_AbortOnFailure(files) ==
    IF files = <<>> THEN [documents |-> <<>>, calls |-> <<>>]
    ELSE LET file == Head(files)
         IN  IF ~Supported(file) THEN LoadDirectory_AbortOnFailure(Tail(files))
             ELSE IF ~Loads(file)
                  THEN [documents |-> <<>>, calls |-> <<PCall("load", <<file>>, 0)>>]
                  ELSE LET rest == LoadDirectory_AbortOnFailure(Tail(files))
                       IN  [documents |-> <<file>> \o rest.documents,
                            calls |-> <<PCall("load", <<file>>, 0)>> \o rest.calls]

\* the os.walk loop of ingest over the files of a directory tree
RECURSIVE LoadDirectory(_)
LoadDirectory(files) ==
    IF files = <<>> THEN [documents |-> <<>>, calls |-> <<>>]
    ELSE LET file == Head(files)
             rest == LoadDirectory(Tail(files))
         IN  IF ~Supported(file) THEN rest
             ELSE [documents |-> IF Loads(file) THEN <<file>> \o rest.documents
                                 ELSE rest.documents,
                   calls |-> <<PCall("load", <<file>>, 0)>> \o rest.calls]

\* the id a new Chunk gets (uuid4): unlike that of every other chunk
ChunkId(op, i) == ToString(op) \o "." \o ToString(i)

\* the loop `for doc in documents: all_chunks.extend(self._chunker.chunk(doc))`
RECURSIVE ChunkAll(_, _, _)
ChunkAll(documents, op, sofar) ==
    IF documents = <<>> THEN sofar
    ELSE LET doc == Head(documents)
             texts == ChunkTexts(doc)
             chunks == [i \in 1..Len(texts) |->
                          [id |-> ChunkId(op, Len(sofar) + i), content |-> texts[i],
                           file_name |-> doc, embedding |-> ""]]
         IN  ChunkAll(Tail(documents), op, sofar \o chunks)

\* self._embedding.embed_texts(texts): one embedding per text, in order
embed_texts(texts) == [i \in 1..Len(texts) |-> "e(" \o texts[i] \o ")"]

\* mutant: every chunk gets the first embedding
SetEmbeddings_AllFirst(chunks, embeddings) ==
    [i \in 1..Len(chunks) |->
        IF Len(embeddings) >= 1 THEN [chunks[i] EXCEPT !.embedding = embeddings[1]]
        ELSE chunks[i]]

\* for chunk, embedding in zip(all_chunks, embeddings): chunk.embedding = embedding
SetEmbeddings(chunks, embeddings) ==
    [i \in 1..Len(chunks) |->
        IF i <= Len(embeddings) THEN [chunks[i] EXCEPT !.embedding = embeddings[i]]
        ELSE chunks[i]]

\* DEFAULT_SYSTEM_PROMPT, as its text around the placeholder
DEFAULT_SYSTEM_PROMPT ==
    <<"You are a helpful assistant. Answer the user's question based on the provided context.\nIf the context doesn't contain relevant information, say so honestly.\n\nContext:\n",
      "{context}", "\n">>

NoPrompt == [given |-> FALSE, text |-> <<>>]

\* the system_prompt argument: omitted, empty, with the placeholder, without
\* it, and with a replacement field other than {context}
SystemPrompts ==
    {NoPrompt,
     [given |-> TRUE, text |-> <<>>],
     [given |-> TRUE, text |-> <<"Use only this:\n", "{context}">>],
     [given |-> TRUE, text |-> <<"Answer briefly.">>],
     [given |-> TRUE, text |-> <<"{question}", "{context}">>]}

ReplacementFields == {"{context}", "{question}"}

\* system_prompt or self.DEFAULT_SYSTEM_PROMPT
PromptTemplate(system_prompt) ==
    IF system_prompt.given /\ system_prompt.text # <<>> THEN system_prompt.text
    ELSE DEFAULT_SYSTEM_PROMPT

\* whether prompt_template.format(context=context) raises KeyError
FormatRaises(template) ==
    \E k \in 1..Len(template) :
        template[k] \in ReplacementFields /\ template[k] # "{context}"

\* prompt_template.format(context=context)
RECURSIVE Format(_, _)
Format(template, context) ==
    IF template = <<>> THEN <<>>
    ELSE (IF Head(template) = "{context}" THEN context ELSE <<Head(template)>>)
         \o Format(Tail(template), context)

\* what the retriever may return to the pipeline; scores in ten-thousandths
PipelineHits ==
    {[chunk |-> [id |-> "c1", content |-> "x",
                 metadata |-> DictPut(EmptyDict, "file_name", "a.txt")],
      score |-> 8700, source |-> "vector"],
     [chunk |-> [id |-> "c2", content |-> "y", metadata |-> EmptyDict],
      score |-> 12346, source |-> "graph"],
     [chunk |-> [id |-> "c3", content |-> "", metadata |-> EmptyDict],
      score |-> 3, source |-> "hybrid"]}

\* self._retriever.retrieve(question, limit=top_k): at most top_k results, no
\* chunk twice
RetrieverResults(top_k) ==
    {results \in SeqsUpTo(PipelineHits, Min(top_k, MaxResults)) : DistinctIds(results)}

Digits == <<"0", "1", "2", "3", "4", "5", "6", "7", "8", "9">>

\* f"{score:.3f}" for a score given in ten-thousandths (none of the scores
\* lies halfway between two thousandths)
Format3(score) ==
    LET t == (score + 5) \div 10
        frac == t % 1000
    IN  ToString(t \div 1000) \o "." \o Digits[(frac \div 100) + 1]
        \o Digits[((frac \div 10) % 10) + 1] \o Digits[(frac % 10) + 1]

\* result.chunk.metadata.get("file_name", "Unknown source")
SourceName(result) ==
    IF "file_name" \in DOMAIN result.chunk.metadata
    THEN result.chunk.metadata["file_name"]
    ELSE "Unknown source"

\* mutant: the header names the retrieval strategy (result.source)
ContextBlock_StrategyTag(i, result) ==
    <<"[", ToString(i), "] (Source: ", result.source, ", Score: ",
      Format3(result.score), ")", "\n", result.chunk.content>>

\* f"[{i}] (Source: {source}, Score: {result.score:.3f})\n{result.chunk.content}"
ContextBlock(i, result) ==
    <<"[", ToString(i), "] (Source: ", SourceName(result), ", Score: ",
      Format3(result.score), ")", "\n", result.chunk.content>>

\* mutant: an empty result list gives an empty context
build_context_EmptyText(results) ==
    Join([i \in 1..Len(results) |-> ContextBlock(i, results[i])], <<"\n\n">>)

\* self._build_context(results)
build_context(results) ==
    IF results = <<>> THEN <<"No relevant context found.">>
    ELSE Join([i \in 1..Len(results) |-> ContextBlock(i, results[i])], <<"\n\n">>)

Answers == {"yes", "no"}

\* what self._llm.generate_stream may produce: its increments, and whether
\* it raises after them
Streams ==
    {[pieces |-> ps, fails |-> f] :
        ps \in {<<>>, <<"A">>, <<"A", "B">>, <<"A", "A">>}, f \in BOOLEAN}

NoStream == [pieces |-> <<>>, fails |-> FALSE]

NoArg == [path |-> MissingPath, question |-> "", top_k |-> 0, system_prompt |-> NoPrompt]

Resting == pl_pc \in {"idle", "returned", "raised"}

PipelineInit ==
    /\ pl_pc = "idle"
    /\ pl_op = ""
    /\ pl_ops = 0
    /\ pl_collection_initialized = FALSE
    /\ pl_store \in {[exists |-> FALSE, batches |-> {}], [exists |-> TRUE, batches |-> {0}]}
    /\ pl_creates = 0
    /\ pl_arg = NoArg
    /\ pl_documents = <<>>
    /\ pl_chunks = <<>>
    /\ pl_results = <<>>
    /\ pl_system = <<>>
    /\ pl_stream = NoStream
    /\ pl_calls = <<>>
    /\ pl_inserted = <<>>
    /\ pl_return = <<>>
    /\ pl_error = ""

PipelineIdle == PipelineInit /\ ~pl_store.exists

\* mutant: the path is examined before the collection is ensured
PipelineIngestCall_PathFirst ==
    /\ Resting
    /\ pl_ops < MaxOps
    /\ \E path \in Paths :
          /\ pl_arg' = [NoArg EXCEPT !.path = path]
          /\ LET ensured == IF path.kind = "missing"
                            THEN [initialized |-> pl_collection_initialized,
                                  store |-> pl_store, created |-> FALSE]
                            ELSE ensure_collection(pl_collection_initialized, pl_store)
             IN  /\ pl_collection_initialized' = ensured.initialized
                 /\ pl_store' = ensured.store
                 /\ pl_creates' = IF ensured.created THEN pl_creates + 1 ELSE pl_creates
                 /\ pl_calls' = IF ensured.created
                                THEN <<PCall("create_collection", <<"collection">>, 0)>>
                                ELSE <<>>
    /\ pl_op' = "ingest"
    /\ pl_ops' = pl_ops + 1
    /\ pl_pc' = "ensured"
    /\ pl_documents' = <<>>
    /\ pl_chunks' = <<>>
    /\ pl_results' = <<>>
    /\ pl_system' = <<>>
    /\ pl_stream' = NoStream
    /\ pl_inserted' = <<>>
    /\ pl_return' = <<>>
    /\ pl_error' = ""
    /\ UNCHANGED <<hy_vars, ms_vars, cb_vars, gr_vars, vr_vars, fc_vars, ci_vars, qd_vars>>

\* ingest(path) is entered and self._ensure_collection() returns
PipelineIngestCall ==
    /\ Resting
    /\ pl_ops < MaxOps
    /\ \E path \in Paths : pl_arg' = [NoArg EXCEPT !.path = path]
    /\ LET ensured == ensure_collection(pl_collection_initialized, pl_store)
       IN  /\ pl_collection_initialized' = ensured.initialized
           /\ pl_store' = ensured.store
           /\ pl_creates' = IF ensured.created THEN pl_creates + 1 ELSE pl_creates
           /\ pl_calls' = IF ensured.created
                          THEN <<PCall("create_collection", <<"collection">>, 0)>>
                          ELSE <<>>
    /\ pl_op' = "ingest"
    /\ pl_ops' = pl_ops + 1
    /\ pl_pc' = "ensured"
    /\ pl_documents' = <<>>
    /\ pl_chunks' = <<>>
    /\ pl_results' = <<>>
    /\ pl_system' = <<>>
    /\ pl_stream' = NoStream
    /\ pl_inserted' = <<>>
    /\ pl_return' = <<>>
    /\ pl_error' = ""
    /\ UNCHANGED <<hy_vars, ms_vars, cb_vars, gr_vars, vr_vars, fc_vars, ci_vars, qd_vars>>

\* mutant: the flag is set although create_collection raised
PipelineCreateFails_FlagSet ==
    /\ Resting
    /\ pl_ops < MaxOps
    /\ ~pl_collection_initialized
    /\ \E path \in Paths : pl_arg' = [NoArg EXCEPT !.path = path]
    /\ pl_calls' = <<PCall("create_collection", <<"collection">>, 0)>>
    /\ pl_collection_initialized' = TRUE
    /\ pl_op' = "ingest"
    /\ pl_ops' = pl_ops + 1
    /\ pl_pc' = "raised"
    /\ pl_error' = "UpstreamFailure"
    /\ pl_documents' = <<>>
    /\ pl_chunks' = <<>>
    /\ pl_results' = <<>>
    /\ pl_system' = <<>>
    /\ pl_stream' = NoStream
    /\ pl_inserted' = <<>>
    /\ pl_return' = <<>>
    /\ UNCHANGED <<pl_store, pl_creates>>
    /\ UNCHANGED <<hy_vars, ms_vars, cb_vars, gr_vars, vr_vars, fc_vars, ci_vars, qd_vars>>

\* ingest(path) is entered and create_collection raises: the flag is not set
PipelineCreateFails ==
    /\ Resting
    /\ pl_ops < MaxOps
    /\ ~pl_collection_initialized
    /\ \E path \in Paths : pl_arg' = [NoArg EXCEPT !.path = path]
    /\ pl_calls' = <<PCall("create_collection", <<"collection">>, 0)>>
    /\ pl_op' = "ingest"
    /\ pl_ops' = pl_ops + 1
    /\ pl_pc' = "raised"
    /\ pl_error' = "UpstreamFailure"
    /\ pl_documents' = <<>>
    /\ pl_chunks' = <<>>
    /\ pl_results' = <<>>
    /\ pl_system' = <<>>
    /\ pl_stream' = NoStream
    /\ pl_inserted' = <<>>
    /\ pl_return' = <<>>
    /\ UNCHANGED <<pl_collection_initialized, pl_store, pl_creates>>
    /\ UNCHANGED <<hy_vars, ms_vars, cb_vars, gr_vars, vr_vars, fc_vars, ci_vars, qd_vars>>

\* mutant: a path that is neither a file nor a directory is taken as an empty directory
PipelineLoad_MissingAsEmpty ==
    /\ pl_pc = "ensured"
    /\ LET path == pl_arg.path
       IN  \/ /\ path.kind = "file"
              /\ Loads(path.files[1])
              /\ pl_documents' = <<path.files[1]>>
              /\ pl_calls' = Append(pl_calls, PCall("load", <<path.files[1]>>, 0))
           \/ /\ path.kind \in {"dir", "missing"}
              /\ pl_documents' = LoadDirectory(path.files).documents
              /\ pl_calls' = pl_calls \o LoadDirectory(path.files).calls
    /\ pl_pc' = "loaded"
    /\ UNCHANGED <<pl_op, pl_ops, pl_collection_initialized, pl_store, pl_creates, pl_arg,
                   pl_chunks, pl_results, pl_system, pl_stream, pl_inserted, pl_return,
                   pl_error>>
    /\ UNCHANGED <<hy_vars, ms_vars, cb_vars, gr_vars, vr_vars, fc_vars, ci_vars, qd_vars>>

\* the path is a file that loads, or a directory: the documents are loaded
PipelineLoad ==
    /\ pl_pc = "ensured"
    /\ LET path == pl_arg.path
       IN  \/ /\ path.kind = "file"
              /\ Loads(path.files[1])
              /\ pl_documents' = <<path.files[1]>>
              /\ pl_calls' = Append(pl_calls, PCall("load", <<path.files[1]>>, 0))
           \/ /\ path.kind = "dir"
              /\ pl_documents' = LoadDirectory(path.files).documents
              /\ pl_calls' = pl_calls \o LoadDirectory(path.files).calls
    /\ pl_pc' = "loaded"
    /\ UNCHANGED <<pl_op, pl_ops, pl_collection_initialized, pl_store, pl_creates, pl_arg,
                   pl_chunks, pl_results, pl_system, pl_stream, pl_inserted, pl_return,
                   pl_error>>
    /\ UNCHANGED <<hy_vars, ms_vars, cb_vars, gr_vars, vr_vars, fc_vars, ci_vars, qd_vars>>

\* the path is a file whose load raises, or neither a file nor a directory
PipelineLoadFails ==
    /\ pl_pc = "ensured"
    /\ LET path == pl_arg.path
       IN  \/ /\ path.kind = "file"
              /\ ~Loads(path.files[1])
              /\ pl_calls' = Append(pl_calls, PCall("load", <<path.files[1]>>, 0))
              /\ pl_error' = "LoadFailure"
           \/ /\ path.kind = "missing"
              /\ pl_calls' = pl_calls
              /\ pl_error' = "FileNotFoundError"
    /\ pl_pc' = "raised"
    /\ UNCHANGED <<pl_op, pl_ops, pl_collection_initialized, pl_store, pl_creates, pl_arg,
                   pl_documents, pl_chunks, pl_results, pl_system, pl_stream, pl_inserted,
                   pl_return>>
    /\ UNCHANGED <<hy_vars, ms_vars, cb_vars, gr_vars, vr_vars, fc_vars, ci_vars, qd_vars>>

\* every document is chunked; with no chunk ingest returns 0
PipelineChunk ==
    /\ pl_pc = "loaded"
    /\ LET all_chunks == ChunkAll(pl_documents, pl_ops, <<>>)
       IN  /\ pl_chunks' = all_chunks
           /\ pl_calls' = pl_calls \o
                 [k \in 1..Len(pl_documents) |-> PCall("chunk", <<pl_documents[k]>>, 0)]
           /\ IF all_chunks = <<>>
              THEN pl_pc' = "returned" /\ pl_return' = <<Len(all_chunks)>>
              ELSE pl_pc' = "chunked" /\ pl_return' = pl_return
    /\ UNCHANGED <<pl_op, pl_ops, pl_collection_initialized, pl_store, pl_creates, pl_arg,
                   pl_documents, pl_results, pl_system, pl_stream, pl_inserted, pl_error>>
    /\ UNCHANGED <<hy_vars, ms_vars, cb_vars, gr_vars, vr_vars, fc_vars, ci_vars, qd_vars>>

\* the batched embedding call returns and each chunk gets its embedding
PipelineEmbed ==
    /\ pl_pc = "chunked"
    /\ LET texts == [i \in 1..Len(pl_chunks) |-> pl_chunks[i].content]
       IN  /\ pl_calls' = Append(pl_calls, PCall("embed_texts", texts, 0))
           /\ pl_chunks' = SetEmbeddings(pl_chunks, embed_texts(texts))
    /\ pl_pc' = "embedded"
    /\ UNCHANGED <<pl_op, pl_ops, pl_collection_initialized, pl_store, pl_creates, pl_arg,
                   pl_documents, pl_results, pl_system, pl_stream, pl_inserted, pl_return,
                   pl_error>>
    /\ UNCHANGED <<hy_vars, ms_vars, cb_vars, gr_vars, vr_vars, fc_vars, ci_vars, qd_vars>>

\* mutant: the failure of the embedding call is passed over and the chunks go on
PipelineEmbedFails_Ignored ==
    /\ pl_pc = "chunked"
    /\ LET texts == [i \in 1..Len(pl_chunks) |-> pl_chunks[i].content]
       IN  pl_calls' = Append(pl_calls, PCall("embed_texts", texts, 0))
    /\ pl_pc' = "embedded"
    /\ pl_error' = "UpstreamFailure"
    /\ UNCHANGED <<pl_op, pl_ops, pl_collection_initialized, pl_store, pl_creates, pl_arg,
                   pl_documents, pl_chunks, pl_results, pl_system, pl_stream, pl_inserted,
                   pl_return>>
    /\ UNCHANGED <<hy_vars, ms_vars, cb_vars, gr_vars, vr_vars, fc_vars, ci_vars, qd_vars>>

\* the batched embedding call raises: the exception leaves ingest
PipelineEmbedFails ==
    /\ pl_pc = "chunked"
    /\ LET texts == [i \in 1..Len(pl_chunks) |-> pl_chunks[i].content]
       IN  pl_calls' = Append(pl_calls, PCall("embed_texts", texts, 0))
    /\ pl_pc' = "raised"
    /\ pl_error' = "UpstreamFailure"
    /\ UNCHANGED <<pl_op, pl_ops, pl_collection_initialized, pl_store, pl_creates, pl_arg,
                   pl_documents, pl_chunks, pl_results, pl_system, pl_stream, pl_inserted,
                   pl_return>>
    /\ UNCHANGED <<hy_vars, ms_vars, cb_vars, gr_vars, vr_vars, fc_vars, ci_vars, qd_vars>>

\* the insert call returns: the batch is in the collection and ingest
\* returns the number of chunks
PipelineInsert ==
    /\ pl_pc = "embedded"
    /\ pl_calls' = Append(pl_calls,
          PCall("insert", [i \in 1..Len(pl_chunks) |-> pl_chunks[i].id], 0))
    /\ pl_inserted' = Append(pl_inserted, pl_chunks)
    /\ pl_store' = [pl_store EXCEPT !.batches = @ \cup {pl_ops}]
    /\ pl_return' = <<Len(pl_chunks)>>
    /\ pl_pc' = "returned"
    /\ UNCHANGED <<pl_op, pl_ops, pl_collection_initialized, pl_creates, pl_arg,
                   pl_documents, pl_chunks, pl_results, pl_system, pl_stream, pl_error>>
    /\ UNCHANGED <<hy_vars, ms_vars, cb_vars, gr_vars, vr_vars, fc_vars, ci_vars, qd_vars>>

\* the insert call raises: nothing of the batch is in the collection and the
\* exception leaves ingest
PipelineInsertFails ==
    /\ pl_pc = "embedded"
    /\ pl_calls' = Append(pl_calls,
          PCall("insert", [i \in 1..Len(pl_chunks) |-> pl_chunks[i].id], 0))
    /\ pl_inserted' = Append(pl_inserted, pl_chunks)
    /\ pl_pc' = "raised"
    /\ pl_error' = "UpstreamFailure"
    /\ UNCHANGED <<pl_op, pl_ops, pl_collection_initialized, pl_store, pl_creates, pl_arg,
                   pl_documents, pl_chunks, pl_results, pl_system, pl_stream, pl_return>>
    /\ UNCHANGED <<hy_vars, ms_vars, cb_vars, gr_vars, vr_vars, fc_vars, ci_vars, qd_vars>>

\* query / query_stream is entered and self._retriever.retrieve returns
PipelineQueryCall ==
    /\ Resting
    /\ pl_ops < MaxOps
    /\ \E op \in {"query", "query_stream"}, question \in Queries, top_k \in 0..MaxLimit,
          system_prompt \in SystemPrompts :
          /\ pl_op' = op
          /\ pl_arg' = [NoArg EXCEPT !.question = question, !.top_k = top_k,
                                     !.system_prompt = system_prompt]
          /\ pl_calls' = <<PCall("retrieve", <<question>>, top_k)>>
          /\ \E results \in RetrieverResults(top_k) : pl_results' = results
    /\ pl_ops' = pl_ops + 1
    /\ pl_pc' = "retrieved"
    /\ pl_documents' = <<>>
    /\ pl_chunks' = <<>>
    /\ pl_system' = <<>>
    /\ pl_stream' = NoStream
    /\ pl_inserted' = <<>>
    /\ pl_return' = <<>>
    /\ pl_error' = ""
    /\ UNCHANGED <<pl_collection_initialized, pl_store, pl_creates>>
    /\ UNCHANGED <<hy_vars, ms_vars, cb_vars, gr_vars, vr_vars, fc_vars, ci_vars, qd_vars>>

\* mutant: a failure of the retriever is answered from an empty result list
PipelineRetrieveFails_Fallback ==
    /\ Resting
    /\ pl_ops < MaxOps
    /\ \E op \in {"query", "query_stream"}, question \in Queries, top_k \in 0..MaxLimit,
          system_prompt \in SystemPrompts :
          /\ pl_op' = op
          /\ pl_arg' = [NoArg EXCEPT !.question = question, !.top_k = top_k,
                                     !.system_prompt = system_prompt]
          /\ pl_calls' = <<PCall("retrieve", <<question>>, top_k)>>
    /\ pl_ops' = pl_ops + 1
    /\ pl_pc' = "retrieved"
    /\ pl_error' = "UpstreamFailure"
    /\ pl_documents' = <<>>
    /\ pl_chunks' = <<>>
    /\ pl_results' = <<>>
    /\ pl_system' = <<>>
    /\ pl_stream' = NoStream
    /\ pl_inserted' = <<>>
    /\ pl_return' = <<>>
    /\ UNCHANGED <<pl_collection_initialized, pl_store, pl_creates>>
    /\ UNCHANGED <<hy_vars, ms_vars, cb_vars, gr_vars, vr_vars, fc_vars, ci_vars, qd_vars>>

\* query / query_stream is entered and self._retriever.retrieve raises
PipelineRetrieveFails ==
    /\ Resting
    /\ pl_ops < MaxOps
    /\ \E op \in {"query", "query_stream"}, question \in Queries, top_k \in 0..MaxLimit,
          system_prompt \in SystemPrompts :
          /\ pl_op' = op
          /\ pl_arg' = [NoArg EXCEPT !.question = question, !.top_k = top_k,
                                     !.system_prompt = system_prompt]
          /\ pl_calls' = <<PCall("retrieve", <<question>>, top_k)>>
    /\ pl_ops' = pl_ops + 1
    /\ pl_pc' = "raised"
    /\ pl_error' = "UpstreamFailure"
    /\ pl_documents' = <<>>
    /\ pl_chunks' = <<>>
    /\ pl_results' = <<>>
    /\ pl_system' = <<>>
    /\ pl_stream' = NoStream
    /\ pl_inserted' = <<>>
    /\ pl_return' = <<>>
    /\ UNCHANGED <<pl_collection_initialized, pl_store, pl_creates>>
    /\ UNCHANGED <<hy_vars, ms_vars, cb_vars, gr_vars, vr_vars, fc_vars, ci_vars, qd_vars>>

\* get_retrieval_results(question, top_k): self._retriever.retrieve returns
\* and its list is returned as it is
PipelineGetResults ==
    /\ Resting
    /\ pl_ops < MaxOps
    /\ \E question \in Queries, top_k \in 0..MaxLimit :
          /\ pl_arg' = [NoArg EXCEPT !.question = question, !.top_k = top_k]
          /\ pl_calls' = <<PCall("retrieve", <<question>>, top_k)>>
          /\ \E results \in RetrieverResults(top_k) :
                /\ pl_results' = results
                /\ pl_return' = results
    /\ pl_op' = "get_retrieval_results"
    /\ pl_ops' = pl_ops + 1
    /\ pl_pc' = "returned"
    /\ pl_documents' = <<>>
    /\ pl_chunks' = <<>>
    /\ pl_system' = <<>>
    /\ pl_stream' = NoStream
    /\ pl_inserted' = <<>>
    /\ pl_error' = ""
    /\ UNCHANGED <<pl_collection_initialized, pl_store, pl_creates>>
    /\ UNCHANGED <<hy_vars, ms_vars, cb_vars, gr_vars, vr_vars, fc_vars, ci_vars, qd_vars>>

\* get_retrieval_results is entered and self._retriever.retrieve raises
PipelineGetResultsFails ==
    /\ Resting
    /\ pl_ops < MaxOps
    /\ \E question \in Queries, top_k \in 0..MaxLimit :
          /\ pl_arg' = [NoArg EXCEPT !.question = question, !.top_k = top_k]
          /\ pl_calls' = <<PCall("retrieve", <<question>>, top_k)>>
    /\ pl_op' = "get_retrieval_results"
    /\ pl_ops' = pl_ops + 1
    /\ pl_pc' = "raised"
    /\ pl_error' = "UpstreamFailure"
    /\ pl_documents' = <<>>
    /\ pl_chunks' = <<>>
    /\ pl_results' = <<>>
    /\ pl_system' = <<>>
    /\ pl_stream' = NoStream
    /\ pl_inserted' = <<>>
    /\ pl_return' = <<>>
    /\ UNCHANGED <<pl_collection_initialized, pl_store, pl_creates>>
    /\ UNCHANGED <<hy_vars, ms_vars, cb_vars, gr_vars, vr_vars, fc_vars, ci_vars, qd_vars>>

\* the template has a replacement field other than {context}: format raises
PipelineFormatFails ==
    /\ pl_pc = "retrieved"
    /\ FormatRaises(PromptTemplate(pl_arg.system_prompt))
    /\ pl_pc' = "raised"
    /\ pl_error' = "KeyError"
    /\ UNCHANGED <<pl_op, pl_ops, pl_collection_initialized, pl_store, pl_creates, pl_arg,
                   pl_documents, pl_chunks, pl_results, pl_system, pl_stream, pl_calls,
                   pl_inserted, pl_return>>
    /\ UNCHANGED <<hy_vars, ms_vars, cb_vars, gr_vars, vr_vars, fc_vars, ci_vars, qd_vars>>

\* return response
QueryReturn(response) == <<response>>

\* query: the context is built, the system prompt formatted, and
\* self._llm.generate returns the answer, which query returns
PipelineGenerate ==
    /\ pl_pc = "retrieved"
    /\ pl_op = "query"
    /\ ~FormatRaises(PromptTemplate(pl_arg.system_prompt))
    /\ pl_system' = Format(PromptTemplate(pl_arg.system_prompt), build_context(pl_results))
    /\ pl_calls' = Append(pl_calls, PCall("generate", <<pl_arg.question>>, 0))
    /\ \E response \in Answers :
          /\ pl_stream' = [pieces |-> <<response>>, fails |-> FALSE]
          /\ pl_return' = QueryReturn(response)
    /\ pl_pc' = "returned"
    /\ UNCHANGED <<pl_op, pl_ops, pl_collection_initialized, pl_store, pl_creates, pl_arg,
                   pl_documents, pl_chunks, pl_results, pl_inserted, pl_error>>
    /\ UNCHANGED <<hy_vars, ms_vars, cb_vars, gr_vars, vr_vars, fc_vars, ci_vars, qd_vars>>

\* query: self._llm.generate raises and the exception leaves query
PipelineGenerateFails ==
    /\ pl_pc = "retrieved"
    /\ pl_op = "query"
    /\ ~FormatRaises(PromptTemplate(pl_arg.system_prompt))
    /\ pl_system' = Format(PromptTemplate(pl_arg.system_prompt), build_context(pl_results))
    /\ pl_calls' = Append(pl_calls, PCall("generate", <<pl_arg.question>>, 0))
    /\ pl_pc' = "raised"
    /\ pl_error' = "UpstreamFailure"
    /\ UNCHANGED <<pl_op, pl_ops, pl_collection_initialized, pl_store, pl_creates, pl_arg,
                   pl_documents, pl_chunks, pl_results, pl_stream, pl_inserted, pl_return>>
    /\ UNCHANGED <<hy_vars, ms_vars, cb_vars, gr_vars, vr_vars, fc_vars, ci_vars, qd_vars>>

\* query_stream: the context is built, the system prompt formatted, and
\* self._llm.generate_stream is called
PipelineStreamStart ==
    /\ pl_pc = "retrieved"
    /\ pl_op = "query_stream"
    /\ ~FormatRaises(PromptTemplate(pl_arg.system_prompt))
    /\ pl_system' = Format(PromptTemplate(pl_arg.system_prompt), build_context(pl_results))
    /\ pl_calls' = Append(pl_calls, PCall("generate_stream", <<pl_arg.question>>, 0))
    /\ \E stream \in Streams : pl_stream' = stream
    /\ pl_pc' = "streaming"
    /\ UNCHANGED <<pl_op, pl_ops, pl_collection_initialized, pl_store, pl_creates, pl_arg,
                   pl_documents, pl_chunks, pl_results, pl_inserted, pl_return, pl_error>>
    /\ UNCHANGED <<hy_vars, ms_vars, cb_vars, gr_vars, vr_vars, fc_vars, ci_vars, qd_vars>>

\* mutant: an increment is yielded twice
Yield_Twice(yielded, chunk) == yielded \o <<chunk, chunk>>

\* yield chunk
Yield(yielded, chunk) == Append(yielded, chunk)

\* query_stream: the next increment of the generator's stream is yielded
PipelineStreamYield ==
    /\ pl_pc = "streaming"
    /\ Len(pl_return) < Len(pl_stream.pieces)
    /\ pl_return' = Yield(pl_return, pl_stream.pieces[Len(pl_return) + 1])
    /\ UNCHANGED <<pl_pc, pl_op, pl_ops, pl_collection_initialized, pl_store, pl_creates,
                   pl_arg, pl_documents, pl_chunks, pl_results, pl_system, pl_stream,
                   pl_calls, pl_inserted, pl_error>>
    /\ UNCHANGED <<hy_vars, ms_vars, cb_vars, gr_vars, vr_vars, fc_vars, ci_vars, qd_vars>>

\* query_stream: the generator's stream ends, or raises, and so does query_stream
PipelineStreamEnd ==
    /\ pl_pc = "streaming"
    /\ Len(pl_return) = Len(pl_stream.pieces)
    /\ IF pl_stream.fails
       THEN pl_pc' = "raised" /\ pl_error' = "UpstreamFailure"
       ELSE pl_pc' = "returned" /\ pl_error' = pl_error
    /\ UNCHANGED <<pl_op, pl_ops, pl_collection_initialized, pl_store, pl_creates, pl_arg,
                   pl_documents, pl_chunks, pl_results, pl_system, pl_stream, pl_calls,
                   pl_inserted, pl_return>>
    /\ UNCHANGED <<hy_vars, ms_vars, cb_vars, gr_vars, vr_vars, fc_vars, ci_vars, qd_vars>>

PipelineNext ==
    \/ PipelineIngestCall
    \/ PipelineCreateFails
    \/ PipelineLoad
    \/ PipelineLoadFails
    \/ PipelineChunk
    \/ PipelineEmbed
    \/ PipelineEmbedFails
    \/ PipelineInsert
    \/ PipelineInsertFails
    \/ PipelineQueryCall
    \/ PipelineRetrieveFails
    \/ PipelineGetResults
    \/ PipelineGetResultsFails
    \/ PipelineFormatFails
    \/ PipelineGenerate
    \/ PipelineGenerateFails
    \/ PipelineStreamStart
    \/ PipelineStreamYield
    \/ PipelineStreamEnd

(***************************************************************************)
(* QdrantAdapter over one collection, the retrievers that wrap its search  *)
(* (VectorRetriever, ColPaliRetriever, ColBERTRetriever) and the fusion of *)
(* two of them.  A chunk is [id, content, file_name, embedding], its       *)
(* metadata being the file name and a missing embedding (None) being "".   *)
(* The Qdrant server is outside the repository: upsert replaces the point  *)
(* of the same id, search returns the `limit` points nearest to the query, *)
(* nearest first, equally near ones in any order.                          *)
(***************************************************************************)
MaxBatch == 2
MaxInserts == 2

StoreIds == {"u1", "u2"}
StoreContents == {"a"}
NoEmbedding == ""

StoreChunks ==
    {[id |-> id, content |-> c, file_name |-> "a.txt", embedding |-> e] :
        id \in StoreIds, c \in StoreContents, e \in {NoEmbedding, "v"}}

Batches == SeqsUpTo(StoreChunks, MaxBatch)

\* the documents an ingest may have loaded
IngestDocuments == {<<"a.txt">>, <<"b.md", "a.txt">>}

\* payload = {"content": chunk.content, ..., **chunk.metadata}
Payload(chunk) ==
    DictPut(DictPut(EmptyDict, "content", chunk.content), "file_name", chunk.file_name)

\* PointStruct(id=chunk.id, vector=chunk.embedding, payload=payload)
PointStruct(chunk) ==
    [id |-> [uuid |-> chunk.id], vector |-> chunk.embedding, payload |-> Payload(chunk)]

\* the loop of insert that builds the points: it raises at the first chunk
\* without an embedding
RECURSIVE BuildPoints(_, _)
BuildPoints(chunks, points) ==
    IF chunks = <<>> THEN [points |-> points, error |-> ""]
    ELSE IF Head(chunks).embedding = NoEmbedding
         THEN [points |-> points, error |-> "ValueError"]
         ELSE BuildPoints(Tail(chunks), Append(points, PointStruct(Head(chunks))))

\* self._client.upsert(collection_name=..., points=points)
RECURSIVE Upsert(_, _)
Upsert(collection, points) ==
    IF points = <<>> THEN collection
    ELSE Upsert({p \in collection : p.id # Head(points).id} \cup {Head(points)},
                Tail(points))

\* mutant: each point is written as soon as it is built
insert_PerChunk(collection, chunks) ==
    LET built == BuildPoints(chunks, <<>>)
    IN  [collection |-> Upsert(collection, built.points), error |-> built.error]

\* QdrantAdapter.insert
insert(collection, chunks) ==
    LET built == BuildPoints(chunks, <<>>)
    IN  IF built.error # "" THEN [collection |-> collection, error |-> built.error]
        ELSE [collection |-> Upsert(collection, built.points), error |-> ""]

\* the score of a point for a query: the cosine similarity of the query
\* vector and the point's vector, in tenths
Similarity(query, point) ==
    LET v == point.vector
    IN  CASE v = "e(a1)" -> IF query = "q1" THEN 9 ELSE 6
          [] v = "e(a2)" -> IF query = "q1" THEN 8 ELSE 7
          [] v = "e(b1)" -> IF query = "q1" THEN 6 ELSE 9
          [] OTHER       -> IF query = "q1" THEN 7 ELSE 8

ScoredPoint(query, point) ==
    [id |-> point.id, score |-> Similarity(query, point), payload |-> point.payload]

\* the ways to list the n most similar points of the collection, most
\* similar first; points of equal similarity come in any order
RECURSIVE TopPoints(_, _, _)
TopPoints(collection, query, n) ==
    IF n = 0 \/ collection = {}
    THEN {<<>>}
    ELSE LET best == {p \in collection :
                         \A q \in collection :
                             Similarity(query, p) >= Similarity(query, q)}
         IN  UNION {{<<p>> \o rest : rest \in TopPoints(collection \ {p}, query, n - 1)} :
                       p \in best}

\* self._client.search(..., limit=limit)
ClientSearch(collection, query, limit) ==
    {[k \in 1..Len(l) |-> ScoredPoint(query, l[k])] :
        l \in TopPoints(collection, query, limit)}

\* {k: v for k, v in payload.items() if k not in [...]}
ChunkMetadata(payload) == [k \in (DOMAIN payload) \ {"content"} |-> payload[k]]

\* mutant: the chunk of a result gets no id
SearchResult_NoId(hit) ==
    [chunk |-> [id |-> "", content |-> hit.payload["content"],
                metadata |-> ChunkMetadata(hit.payload)],
     score |-> hit.score, source |-> "vector", metadata |-> hit.payload]

\* the body of the loop of search over the hits: id=str(hit.id)
SearchResult(hit) ==
    [chunk |-> [id |-> hit.id.uuid, content |-> hit.payload["content"],
                metadata |-> ChunkMetadata(hit.payload)],
     score |-> hit.score, source |-> "vector", metadata |-> hit.payload]

\* QdrantAdapter.search
QdrantSearch(collection, query, limit) ==
    {[k \in 1..Len(hits) |-> SearchResult(hits[k])] :
        hits \in ClientSearch(collection, query, limit)}

RetrieverKinds == {"vector", "colpali", "colbert"}

\* the limit a retriever passes to search
RetrieverSearchLimit(kind, limit) == IF kind = "colbert" THEN SearchLimit(limit) ELSE limit

\* ColPaliRetriever.retrieve: the results with their source updated
ColPaliReturn(results) ==
    [k \in 1..Len(results) |->
        [chunk |-> results[k].chunk, score |-> results[k].score, source |-> "colpali",
         metadata |-> results[k].metadata]]

\* what the retriever returns for the list search returned
RetrieverReturn(kind, found, query, limit) ==
    CASE kind = "vector"  -> VectorReturn(found)
      [] kind = "colpali" -> ColPaliReturn(found)
      [] kind = "colbert" ->
            ColBERTFinish([k \in 1..Len(found) |->
                              RerankOne(found[k], embed_query_tokens(query))], limit)

StoreInit ==
    /\ qd_pc = "idle"
    /\ qd_points = {}
    /\ qd_caller = ""
    /\ qd_batch = <<>>
    /\ qd_error = ""
    /\ qd_inserts = 0
    /\ qd_outputs = <<>>
    /\ qd_fused = <<>>

\* insert(collection_name, chunks), called with any list of chunks
StoreInsert ==
    /\ qd_inserts < MaxInserts
    /\ \E chunks \in Batches :
          LET done == insert(qd_points, chunks)
          IN  /\ qd_batch' = chunks
              /\ qd_points' = done.collection
              /\ qd_error' = done.error
              /\ qd_pc' = IF done.error = "" THEN "inserted" ELSE "raised"
    /\ qd_caller' = "caller"
    /\ qd_inserts' = qd_inserts + 1
    /\ UNCHANGED <<qd_outputs, qd_fused>>
    /\ UNCHANGED <<hy_vars, ms_vars, cb_vars, gr_vars, vr_vars, pl_vars, fc_vars, ci_vars>>

\* insert as the tail of PolyRAGPipeline.ingest calls it: the chunks of the
\* documents, each with the embedding the batched embedding call gave it
StoreIngestInsert ==
    /\ qd_inserts < MaxInserts
    /\ \E documents \in IngestDocuments :
          LET all_chunks == ChunkAll(documents, qd_inserts + 1, <<>>)
              texts == [i \in 1..Len(all_chunks) |-> all_chunks[i].content]
              embeddings == embed_texts(texts)
              chunks == SetEmbeddings(all_chunks, embeddings)
              done == insert(qd_points, chunks)
          IN  /\ qd_batch' = chunks
              /\ qd_points' = done.collection
              /\ qd_error' = done.error
              /\ qd_pc' = IF done.error = "" THEN "inserted" ELSE "raised"
    /\ qd_caller' = "ingest"
    /\ qd_inserts' = qd_inserts + 1
    /\ UNCHANGED <<qd_outputs, qd_fused>>
    /\ UNCHANGED <<hy_vars, ms_vars, cb_vars, gr_vars, vr_vars, pl_vars, fc_vars, ci_vars>>

\* retrieve(query, limit) on a retriever over the collection: it searches
\* and returns the results its own way; the retrievers of one hybrid
\* retrieve get the same query and limit
StoreRetrieve ==
    /\ Len(qd_outputs) < MaxStrategies
    /\ \E kind \in RetrieverKinds,
          query \in IF qd_outputs = <<>> THEN Queries ELSE {qd_outputs[1].query},
          limit \in IF qd_outputs = <<>> THEN 0..MaxLimit ELSE {qd_outputs[1].limit} :
       \E found \in QdrantSearch(qd_points, query, RetrieverSearchLimit(kind, limit)) :
          qd_outputs' = Append(qd_outputs,
              [kind |-> kind, query |-> query, limit |-> limit, found |-> found,
               results |-> RetrieverReturn(kind, found, query, limit)])
    /\ qd_pc' = "retrieved"
    /\ qd_caller' = ""
    /\ qd_batch' = <<>>
    /\ qd_error' = ""
    /\ qd_inserts' = MaxInserts
    /\ UNCHANGED <<qd_points, qd_fused>>
    /\ UNCHANGED <<hy_vars, ms_vars, cb_vars, gr_vars, vr_vars, pl_vars, fc_vars, ci_vars>>

\* the loops of HybridRetriever.retrieve over the lists of the retrievers,
\* with the default equal weights
StoreFuse ==
    /\ qd_pc = "retrieved"
    /\ Len(qd_outputs) = MaxStrategies
    /\ LET weights == HybridRetriever_init(qd_outputs, NoWeights).weights
       IN  qd_fused' = Fuse(Fuse(<<>>, qd_outputs[1].results, weights[1]),
                            qd_outputs[2].results, weights[2])
    /\ qd_pc' = "fused"
    /\ UNCHANGED <<qd_points, qd_caller, qd_batch, qd_error, qd_inserts, qd_outputs>>
    /\ UNCHANGED <<hy_vars, ms_vars, cb_vars, gr_vars, vr_vars, pl_vars, fc_vars, ci_vars>>

StoreNext ==
    \/ StoreInsert
    \/ StoreIngestInsert
    \/ StoreRetrieve
    \/ StoreFuse

(***************************************************************************)
(* FixedSizeChunker.  A text is a sequence of one-character strings;       *)
(* positions count from 0 as in the source.                                *)
(***************************************************************************)
MaxChunkSize == 3
MaxTextLen == 4

ChunkSizes == 0..MaxChunkSize
ChunkOverlaps == -1..MaxChunkSize
Chars == {"a", "b"}
Texts == SeqsUpTo(Chars, MaxTextLen)

\* FixedSizeChunker(chunk_size, chunk_overlap)
FixedSizeChunker_init(chunk_size, chunk_overlap) ==
    IF chunk_overlap >= chunk_size THEN [error |-> "ValueError"] ELSE [error |-> ""]

\* text[start:end] for 0 <= start <= end
Slice(text, start, end) == SubSeq(text, start + 1, Min(end, Len(text)))

\* mutant: the next chunk starts where the last one ended
NextStart_NoOverlap(end, chunk_overlap) == end

\* start = end - self._chunk_overlap
NextStart(end, chunk_overlap) == end - chunk_overlap

ChunkerInit ==
    /\ fc_pc = "new"
    /\ fc_chunk_size = 0
    /\ fc_chunk_overlap = 0
    /\ fc_error = ""
    /\ fc_text = <<>>
    /\ fc_start = 0
    /\ fc_starts = <<>>
    /\ fc_chunks = <<>>

ChunkerConstruct ==
    /\ fc_pc = "new"
    /\ \E chunk_size \in ChunkSizes, chunk_overlap \in ChunkOverlaps :
          LET made == FixedSizeChunker_init(chunk_size, chunk_overlap)
          IN  /\ fc_chunk_size' = chunk_size
              /\ fc_chunk_overlap' = chunk_overlap
              /\ fc_error' = made.error
              /\ fc_pc' = IF made.error = "" THEN "idle" ELSE "failed"
    /\ UNCHANGED <<fc_text, fc_start, fc_starts, fc_chunks>>
    /\ UNCHANGED <<hy_vars, ms_vars, cb_vars, gr_vars, vr_vars, pl_vars, ci_vars, qd_vars>>

\* _split_text(text) up to the loop: an empty text returns at once
ChunkerSplitCall ==
    /\ fc_pc = "idle"
    /\ \E text \in Texts :
          /\ fc_text' = text
          /\ fc_pc' = IF text = <<>> THEN "done" ELSE "loop"
    /\ fc_start' = 0
    /\ fc_starts' = <<>>
    /\ fc_chunks' = <<>>
    /\ UNCHANGED <<fc_chunk_size, fc_chunk_overlap, fc_error>>
    /\ UNCHANGED <<hy_vars, ms_vars, cb_vars, gr_vars, vr_vars, pl_vars, ci_vars, qd_vars>>

\* one turn of `while start < len(text)`, left by the loop condition or the
\* break when the new start is at or past the end of the text
ChunkerSplitStep ==
    /\ fc_pc = "loop"
    /\ fc_start < Len(fc_text)
    /\ LET end == fc_start + fc_chunk_size
           chunk == Slice(fc_text, fc_start, end)
           start == NextStart(end, fc_chunk_overlap)
       IN  /\ fc_chunks' = Append(fc_chunks, chunk)
           /\ fc_starts' = Append(fc_starts, fc_start)
           /\ fc_start' = start
           /\ fc_pc' = IF start >= Len(fc_text) THEN "done" ELSE "loop"
    /\ UNCHANGED <<fc_chunk_size, fc_chunk_overlap, fc_error, fc_text>>
    /\ UNCHANGED <<hy_vars, ms_vars, cb_vars, gr_vars, vr_vars, pl_vars, ci_vars, qd_vars>>

ChunkerNext ==
    \/ ChunkerConstruct
    \/ ChunkerSplitCall
    \/ ChunkerSplitStep

(***************************************************************************)
(* Threads that call ingest on one shared pipeline instance.  Nothing in   *)
(* ingest or _ensure_collection takes a lock, so the threads interleave    *)
(* between the read of the flag, the create_collection call, the           *)
(* assignment of the flag and the insert call.                             *)
(***************************************************************************)
MaxThreads == 2

Threads == 1..MaxThreads

ConcurrentInit ==
    /\ ci_pc = [t \in Threads |-> "start"]
    /\ ci_flag = FALSE
    /\ ci_creates = 0
    /\ ci_sets = 0
    /\ ci_store \in {[exists |-> FALSE, batches |-> {}], [exists |-> TRUE, batches |-> {0}]}

ConcurrentIdle == ConcurrentInit /\ ~ci_store.exists

\* if not self._collection_initialized:
ConcurrentCheck(t) ==
    /\ ci_pc[t] = "start"
    /\ ci_pc' = [ci_pc EXCEPT ![t] = IF ci_flag THEN "ensured" ELSE "create"]
    /\ UNCHANGED <<ci_flag, ci_creates, ci_sets, ci_store>>
    /\ UNCHANGED <<hy_vars, ms_vars, cb_vars, gr_vars, vr_vars, pl_vars, fc_vars, qd_vars>>

\* self._vector_store.create_collection(...) returns: the store recreates
\* the collection, which drops what it held
ConcurrentCreate(t) ==
    /\ ci_pc[t] = "create"
    /\ ci_store' = [exists |-> TRUE, batches |-> {}]
    /\ ci_creates' = ci_creates + 1
    /\ ci_pc' = [ci_pc EXCEPT ![t] = "set"]
    /\ UNCHANGED <<ci_flag, ci_sets>>
    /\ UNCHANGED <<hy_vars, ms_vars, cb_vars, gr_vars, vr_vars, pl_vars, fc_vars, qd_vars>>

\* create_collection raises and the exception leaves ingest
ConcurrentCreateFails(t) ==
    /\ ci_pc[t] = "create"
    /\ ci_pc' = [ci_pc EXCEPT ![t] = "raised"]
    /\ UNCHANGED <<ci_flag, ci_creates, ci_sets, ci_store>>
    /\ UNCHANGED <<hy_vars, ms_vars, cb_vars, gr_vars, vr_vars, pl_vars, fc_vars, qd_vars>>

\* self._collection_initialized = True
ConcurrentSetFlag(t) ==
    /\ ci_pc[t] = "set"
    /\ ci_flag' = TRUE
    /\ ci_sets' = ci_sets + 1
    /\ ci_pc' = [ci_pc EXCEPT ![t] = "ensured"]
    /\ UNCHANGED <<ci_creates, ci_store>>
    /\ UNCHANGED <<hy_vars, ms_vars, cb_vars, gr_vars, vr_vars, pl_vars, fc_vars, qd_vars>>

\* the path gave chunks and the batched embedding call returned
ConcurrentPrepare(t) ==
    /\ ci_pc[t] = "ensured"
    /\ ci_pc' = [ci_pc EXCEPT ![t] = "batched"]
    /\ UNCHANGED <<ci_flag, ci_creates, ci_sets, ci_store>>
    /\ UNCHANGED <<hy_vars, ms_vars, cb_vars, gr_vars, vr_vars, pl_vars, fc_vars, qd_vars>>

\* self._vector_store.insert(self._collection_name, all_chunks) returns
ConcurrentInsert(t) ==
    /\ ci_pc[t] = "batched"
    /\ ci_store.exists
    /\ ci_store' = [ci_store EXCEPT !.batches = @ \cup {t}]
    /\ ci_pc' = [ci_pc EXCEPT ![t] = "done"]
    /\ UNCHANGED <<ci_flag, ci_creates, ci_sets>>
    /\ UNCHANGED <<hy_vars, ms_vars, cb_vars, gr_vars, vr_vars, pl_vars, fc_vars, qd_vars>>

\* the path gave no chunk: ingest returns 0 without an insert call
ConcurrentNoChunks(t) ==
    /\ ci_pc[t] = "ensured"
    /\ ci_pc' = [ci_pc EXCEPT ![t] = "empty"]
    /\ UNCHANGED <<ci_flag, ci_creates, ci_sets, ci_store>>
    /\ UNCHANGED <<hy_vars, ms_vars, cb_vars, gr_vars, vr_vars, pl_vars, fc_vars, qd_vars>>

\* the path check, loading, embedding or insert raises and the exception
\* leaves ingest
ConcurrentIngestFails(t) ==
    /\ ci_pc[t] \in {"ensured", "batched"}
    /\ ci_pc' = [ci_pc EXCEPT ![t] = "raised"]
    /\ UNCHANGED <<ci_flag, ci_creates, ci_sets, ci_store>>
    /\ UNCHANGED <<hy_vars, ms_vars, cb_vars, gr_vars, vr_vars, pl_vars, fc_vars, qd_vars>>

ConcurrentNext ==
    \E t \in Threads :
        \/ ConcurrentCheck(t)
        \/ ConcurrentCreate(t)
        \/ ConcurrentCreateFails(t)
        \/ ConcurrentSetFlag(t)
        \/ ConcurrentPrepare(t)
        \/ ConcurrentInsert(t)
        \/ ConcurrentNoChunks(t)
        \/ ConcurrentIngestFails(t)

(***************************************************************************)
(* The retrievers are separate objects that share no state: each has a     *)
(* specification of its own, in which the others stay as constructed.      *)
(***************************************************************************)
Init ==
    HybridInit /\ MaxSimIdle /\ ColBERTInit /\ GraphInit /\ VectorInit /\ PipelineInit
    /\ ChunkerInit /\ ConcurrentInit /\ StoreInit

Next ==
    \/ HybridNext
    \/ ColBERTNext
    \/ GraphNext
    \/ VectorNext
    \/ PipelineNext
    \/ ChunkerNext
    \/ ConcurrentNext
    \/ StoreNext

Spec == Init /\ [][Next]_vars

GraphIdle == GraphInit /\ gr_depth = 1

OthersIdle == HybridInit /\ MaxSimIdle /\ ColBERTInit /\ GraphIdle /\ VectorIdle
    /\ ChunkerInit /\ ConcurrentIdle /\ StoreInit

InitHybrid == OthersIdle /\ PipelineIdle

InitMaxSim ==
    HybridInit /\ MaxSimInit /\ ColBERTInit /\ GraphIdle /\ VectorIdle /\ PipelineIdle
    /\ ChunkerInit /\ ConcurrentIdle /\ StoreInit

InitGraph ==
    HybridInit /\ MaxSimIdle /\ ColBERTInit /\ GraphInit /\ VectorIdle /\ PipelineIdle
    /\ ChunkerInit /\ ConcurrentIdle /\ StoreInit

InitVector ==
    HybridInit /\ MaxSimIdle /\ ColBERTInit /\ GraphIdle /\ VectorInit /\ PipelineIdle
    /\ ChunkerInit /\ ConcurrentIdle /\ StoreInit

InitPipeline == OthersIdle /\ PipelineInit

SpecHybrid == InitHybrid /\ [][HybridNext]_vars

SpecColBERT == InitHybrid /\ [][ColBERTNext]_vars

SpecMaxSim == InitMaxSim /\ [][MaxSimNext]_vars

SpecVector == InitVector /\ [][VectorNext]_vars

SpecPipeline == InitPipeline /\ [][PipelineNext]_vars

SpecGraph == InitGraph /\ [][GraphNext]_vars

InitConcurrent ==
    HybridInit /\ MaxSimIdle /\ ColBERTInit /\ GraphIdle /\ VectorIdle /\ PipelineIdle
    /\ ChunkerInit /\ ConcurrentInit /\ StoreInit

SpecConcurrent == InitConcurrent /\ [][ConcurrentNext]_vars

SpecStore == InitHybrid /\ [][StoreNext]_vars

SpecChunker == InitHybrid /\ [][ChunkerNext]_vars

\* the loop of _split_text goes on running until it is left
SpecChunkerLive == InitHybrid /\ [][ChunkerNext]_vars /\ WF_vars(ChunkerSplitStep)

(***************************************************************************)
(* Vocabulary of the claims about HybridRetriever, read off the strategy   *)
(* outputs (hy_outputs) and not off the fused mapping.                     *)
(***************************************************************************)
\* every <<strategy, position>> at which `id` was returned, and the first of them
Encounters(id) ==
    {<<j, p>> \in (1..Len(hy_outputs)) \X (1..MaxResults + 1) :
        p <= Len(hy_outputs[j]) /\ hy_outputs[j][p].chunk.id = id}

Earlier(a, b) == a[1] < b[1] \/ (a[1] = b[1] /\ a[2] < b[2])

FirstSeen(id) == CHOOSE a \in Encounters(id) : \A b \in Encounters(id) : a = b \/ Earlier(a, b)

ResultAt(a) == hy_outputs[a[1]][a[2]]

\* what strategy j contributes to `id` when it returned it exactly once
Contribution(j, id) ==
    IF id \in IdsOf(hy_outputs[j])
    THEN LET p == CHOOSE p \in 1..Len(hy_outputs[j]) : hy_outputs[j][p].chunk.id = id
         IN  RatMul(hy_weights[j], RatOfInt(hy_outputs[j][p].score))
    ELSE RatOfInt(0)

HybridActive == hy_pc \in {"loop", "returned"}

\* C1: when no strategy returns a chunk id twice, the fused mapping holds
\* exactly the ids some strategy returned, and the score of each is the sum
\* of weight times raw score over the strategies that returned it.
C1_FusedScoreIsWeightedSum ==
    (HybridActive /\ \A j \in 1..Len(hy_outputs) : DistinctIds(hy_outputs[j])) =>
        /\ IdsOf(hy_all_results) = UNION {IdsOf(hy_outputs[j]) : j \in 1..Len(hy_outputs)}
        /\ DistinctIds(hy_all_results)
        /\ \A e \in Range(hy_all_results) :
              e.score = RatSumSeq([j \in 1..Len(hy_outputs) |-> Contribution(j, e.chunk.id)])

\* a call has returned in which one id came from two strategies and another
\* id from one strategy only
C1_Witness ==
    /\ hy_pc = "returned"
    /\ Len(hy_outputs) = 2
    /\ \A j \in 1..2 : DistinctIds(hy_outputs[j])
    /\ "X" \in IdsOf(hy_outputs[1]) \cap IdsOf(hy_outputs[2])
    /\ "Y" \in IdsOf(hy_outputs[2]) \ IdsOf(hy_outputs[1])
    /\ hy_weights[1] # hy_weights[2]

\* a precedes b in the ranking: higher fused score, or the same score and
\* first encountered earlier
RankedBefore(a, b) ==
    \/ RatLess(b.score, a.score)
    \/ (a.score = b.score /\ Earlier(FirstSeen(a.chunk.id), FirstSeen(b.chunk.id)))

ExampleCall ==
    /\ hy_pc = "returned"
    /\ hy_limit = 2
    /\ hy_weights = <<Rat(7, 10), Rat(3, 10)>>
    /\ hy_outputs = << <<StrategyResult(1, "X", 9)>>,
                       <<StrategyResult(2, "X", 8), StrategyResult(2, "Y", 10)>> >>

\* C2: retrieve returns the min(limit, number of fused ids) best fused
\* entries, by fused score descending and, among equal scores, in order of
\* first encounter; the example of the spec gives [X @ 0.87, Y @ 0.30]
\* (scores are in tenths: 87/10 and 3).
C2_RankedAndTruncated ==
    hy_pc = "returned" =>
        /\ Len(hy_result) = Min(hy_limit, Len(hy_all_results))
        /\ Len(hy_result) <= hy_limit
        /\ Range(hy_result) \subseteq Range(hy_all_results)
        /\ \A k, l \in 1..Len(hy_result) :
              k < l => RankedBefore(hy_result[k], hy_result[l])
        /\ \A r \in Range(hy_result) :
              \A e \in Range(hy_all_results) \ Range(hy_result) : RankedBefore(r, e)
        /\ ExampleCall =>
              /\ [k \in 1..Len(hy_result) |-> hy_result[k].chunk.id] = <<"X", "Y">>
              /\ [k \in 1..Len(hy_result) |-> hy_result[k].score] = <<Rat(87, 10), Rat(3, 1)>>

\* a call has returned one of two fused entries of equal score, the one of
\* the later strategy being cut
C2_Witness ==
    /\ hy_pc = "returned"
    /\ hy_limit = 1
    /\ Len(hy_all_results) = 2
    /\ hy_all_results[1].score = hy_all_results[2].score
    /\ FirstSeen(hy_all_results[1].chunk.id)[1] # FirstSeen(hy_all_results[2].chunk.id)[1]
    /\ Len(hy_result) = 1

\* the key-value pairs the results encountered for `id` leave in its metadata
LastWithSource(id, source) ==
    CHOOSE a \in Encounters(id) :
        /\ ResultAt(a).source = source
        /\ \A b \in Encounters(id) : ResultAt(b).source = source => (a = b \/ Earlier(b, a))

\* C3: a fused entry keeps the chunk object of the first result encountered
\* with its id; its metadata holds the metadata of that first result and, for
\* every result encountered with the id, the key "<source>_score" with a raw
\* score of that source (the latest one), and no other key.
C3_FirstChunkKept ==
    HybridActive =>
        \A e \in Range(hy_all_results) :
            LET id == e.chunk.id
                first == ResultAt(FirstSeen(id))
                keys == {ScoreKey(ResultAt(a).source) : a \in Encounters(id)}
            IN  /\ Encounters(id) # {}
                /\ e.chunk = first.chunk
                /\ e.source = "hybrid"
                /\ DOMAIN e.metadata = (DOMAIN first.metadata) \cup keys
                /\ \A k \in DOMAIN first.metadata : k \notin keys => e.metadata[k] = first.metadata[k]
                /\ \A a \in Encounters(id) :
                      e.metadata[ScoreKey(ResultAt(a).source)]
                          = ResultAt(LastWithSource(id, ResultAt(a).source)).score

\* an id was returned by two strategies, which delivered different chunk
\* objects for it
C3_Witness ==
    /\ hy_pc = "returned"
    /\ \E e \in Range(hy_all_results) :
          \E a, b \in Encounters(e.chunk.id) :
              /\ a[1] # b[1]
              /\ ResultAt(a).chunk # ResultAt(b).chunk
              /\ DOMAIN e.metadata = {"vector", "vector_score", "graph_score"}

(***************************************************************************)
(* Claims about the constructor.                                           *)
(***************************************************************************)
HybridConstructed == hy_pc = "idle"

\* C4 as stated: every successfully constructed HybridRetriever has weights
\* summing to 1, an empty strategy list included.
C4_WeightsSumToOne ==
    HybridConstructed => RatSumSeq(hy_weights) = RatOfInt(1)

\* C4 as amended: with at least one strategy, a constructed retriever has
\* weights summing to 1, each 1/N when weights were omitted and each
\* w / sum(w) when given; with no strategy and an empty weight list the
\* retriever is constructed with no weights (sum 0); an all-zero weight list
\* for one or more strategies, and omitted weights for no strategy, raise
\* ZeroDivisionError.
C4_WeightsSumToOneUnlessEmpty ==
    LET n == Len(hy_retrievers)
        total == SumSeq(hy_given.list)
    IN  /\ HybridConstructed =>
              /\ Len(hy_weights) = n
              /\ n >= 1 => RatSumSeq(hy_weights) = RatOfInt(1)
              /\ n = 0 => hy_given.given /\ RatSumSeq(hy_weights) = RatOfInt(0)
              /\ ~hy_given.given =>
                    \A i \in 1..n : hy_weights[i][1] * n = hy_weights[i][2]
              /\ hy_given.given =>
                    /\ n >= 1 => total > 0
                    /\ \A i \in 1..n :
                          hy_weights[i][1] * total = hy_given.list[i] * hy_weights[i][2]
        /\ (hy_pc = "failed" /\ hy_error = "ZeroDivisionError") =>
              \/ ~hy_given.given /\ n = 0
              \/ hy_given.given /\ n >= 1 /\ Len(hy_given.list) = n /\ total = 0

\* a retriever was constructed from unequal weights given for two strategies
C4_Witness ==
    /\ HybridConstructed
    /\ hy_given = GivenWeights(<<7, 3>>)
    /\ hy_weights = <<Rat(7, 10), Rat(3, 10)>>

\* C5: a weight list whose length differs from the number of strategies
\* makes the constructor raise ValueError and no retriever exists; with
\* equal lengths, or no weight list, ValueError is never raised.
C5_LengthMismatchRejected ==
    /\ hy_pc \in {"idle", "failed"} =>
          LET mismatch == hy_given.given /\ Len(hy_given.list) # Len(hy_retrievers)
          IN  /\ mismatch => hy_pc = "failed" /\ hy_error = "ValueError"
              /\ ~mismatch => hy_error # "ValueError"
    /\ hy_error = "ValueError" => hy_pc = "failed"
    /\ hy_pc = "failed" => hy_weights = <<>> /\ hy_calls = <<>> /\ hy_result = <<>>

\* more weights than strategies were given, and the constructor raised
C5_Witness ==
    /\ hy_pc = "failed"
    /\ hy_error = "ValueError"
    /\ hy_given.given
    /\ Len(hy_given.list) > Len(hy_retrievers)
    /\ Len(hy_retrievers) >= 1

(***************************************************************************)
(* Claims about failing strategies.                                        *)
(***************************************************************************)
\* C6: when a strategy's retrieve raises, the hybrid retrieve raises that
\* error and returns no list, the failing strategy is the last one invoked,
\* and a list is returned only when every strategy was invoked and returned.
C6_StrategyFailureIsFatal ==
    /\ hy_pc = "raised" =>
          /\ hy_error = "UpstreamFailure"
          /\ hy_result = <<>>
          /\ Len(hy_calls) = Len(hy_outputs) + 1
          /\ hy_calls[Len(hy_calls)].retriever = hy_i
          /\ \A k \in 1..Len(hy_calls) : hy_calls[k].retriever = k
    /\ hy_pc = "returned" =>
          /\ hy_error = ""
          /\ Len(hy_outputs) = Len(hy_retrievers)
          /\ Len(hy_calls) = Len(hy_retrievers)
    /\ hy_result # <<>> => hy_pc = "returned"

\* the second strategy raised after the first had contributed fused entries
\* while a further strategy was never invoked
C6_Witness ==
    /\ hy_pc = "raised"
    /\ Len(hy_retrievers) = 2
    /\ Len(hy_outputs) = 1
    /\ hy_all_results # <<>>
    /\ hy_result = <<>>

(***************************************************************************)
(* Claims about ColBERTRetriever.                                          *)
(***************************************************************************)
Dot(u, v) == SumSeq([k \in 1..Len(u) |-> u[k] * v[k]])

\* the largest dot product of the query row q with a row of d
BestMatch(q, d) ==
    CHOOSE m \in {Dot(q, d[t]) : t \in 1..Len(d)} :
        \A t \in 1..Len(d) : Dot(q, d[t]) <= m

RECURSIVE SumOfBestMatches(_, _)
SumOfBestMatches(qs, d) ==
    IF qs = <<>> THEN 0 ELSE BestMatch(Head(qs), d) + SumOfBestMatches(Tail(qs), d)

\* C7: _compute_maxsim(Q, D) is the sum over the rows q of Q of the largest
\* dot product of q with a row of D; Q = [[1,0]], D = [[1,0],[0,1]] gives 1.
C7_MaxSimIsSumOfRowMaxima ==
    ms_pc = "done" =>
        /\ ms_score = SumOfBestMatches(ms_query_tokens, ms_doc_tokens)
        /\ (ms_query_tokens = << <<1, 0>> >> /\ ms_doc_tokens = << <<1, 0>>, <<0, 1>> >>)
              => ms_score = 1

\* the score was computed for two query rows whose best matches are
\* different document rows, one of them negative
C7_Witness ==
    /\ ms_pc = "done"
    /\ ms_query_tokens = << <<1, 0>>, <<0, -1>> >>
    /\ ms_doc_tokens = << <<1, 1>>, <<-1, 1>> >>
    /\ ms_score = 0

CandidateIndex(id) == CHOOSE k \in 1..Len(cb_candidates) : cb_candidates[k].chunk.id = id

\* a precedes b: higher MaxSim score, or the same score and returned earlier
\* by the vector search
RerankedBefore(a, b) ==
    \/ a.score > b.score
    \/ (a.score = b.score /\ CandidateIndex(a.chunk.id) < CandidateIndex(b.chunk.id))

\* C8: retrieve returns the min(limit, number of candidates) best
\* candidates, by MaxSim score descending and, among equal scores, in the
\* order of the vector search; no candidate gives the empty list.
C8_RerankedAndTruncated ==
    cb_pc = "returned" =>
        /\ Len(cb_result) = Min(cb_limit, Len(cb_candidates))
        /\ Len(cb_result) <= cb_limit
        /\ IdsOf(cb_result) \subseteq IdsOf(cb_candidates)
        /\ DistinctIds(cb_result)
        /\ \A k, l \in 1..Len(cb_result) :
              k < l => RerankedBefore(cb_result[k], cb_result[l])
        /\ \A r \in Range(cb_result) :
              \A e \in Range(cb_reranked) \ Range(cb_result) : RerankedBefore(r, e)
        /\ cb_candidates = <<>> => cb_result = <<>>

\* three candidates were reranked against their vector order, two of them
\* with the same MaxSim score, and one was cut
C8_Witness ==
    /\ cb_pc = "returned"
    /\ cb_limit = 2
    /\ Len(cb_candidates) = 3
    /\ Len(cb_result) = 2
    /\ cb_result[1].score = cb_result[2].score
    /\ cb_result[1].chunk.id = cb_candidates[2].chunk.id
    /\ cb_result[2].chunk.id = cb_candidates[3].chunk.id

\* C9: every returned result has the MaxSim of the query tokens and its
\* document tokens as score, source "colbert", the candidate's chunk, and
\* the candidate's metadata extended by "original_score" (the candidate's
\* vector score) and "maxsim_score" (the result's score).
C9_ResultsCarryBothScores ==
    cb_pc = "returned" =>
        \A r \in Range(cb_result) :
            \E k \in 1..Len(cb_candidates) :
                LET c == cb_candidates[k] IN
                /\ r.chunk = c.chunk
                /\ r.source = "colbert"
                /\ r.score = SumOfBestMatches(embed_query_tokens(cb_query),
                                              embed_doc_tokens(c.chunk.content))
                /\ DOMAIN r.metadata = (DOMAIN c.metadata) \cup {"original_score", "maxsim_score"}
                /\ r.metadata["original_score"] = c.score
                /\ r.metadata["maxsim_score"] = r.score
                /\ \A key \in DOMAIN c.metadata : r.metadata[key] = c.metadata[key]

\* a result was returned whose MaxSim score differs from its vector score
C9_Witness ==
    /\ cb_pc = "returned"
    /\ \E r \in Range(cb_result) :
          /\ r.metadata["original_score"] = 9
          /\ r.metadata["maxsim_score"] = 3
          /\ r.score = 3

(***************************************************************************)
(* Claims about GraphRetriever.                                            *)
(***************************************************************************)
RelatedLine(node) == RelatedPrefix \o Take(node.properties.content, PreviewLen) \o Ellipsis

TagLine(rel) == <<"[">> \o (IF "type" \in DOMAIN rel THEN rel.type ELSE DefaultRelType) \o <<"]">>

\* "Main:", then the given nodes as "Related:" lines, then the tags
ContextOf(center, listed, rels) ==
    Join(<<MainPrefix \o center.content>>
             \o [i \in 1..Len(listed) |-> RelatedLine(listed[i])]
             \o [i \in 1..Len(rels) |-> TagLine(rels[i])],
         Newline)

OtherNodes(center, sg) == SelectSeq(sg.nodes, LAMBDA n : n.id # center.id)

OtherNodesWithContent(center, sg) ==
    SelectSeq(sg.nodes, LAMBDA n : n.id # center.id /\ n.properties.content # <<>>)

GraphText(k) == gr_results[k].chunk.content

\* C10 as stated: for every matched node the text is "Main: <content>", a
\* "Related:" line with a preview of at most 200 characters for each other
\* subgraph node, then one "[TYPE]" tag for each relationship, in store order.
C10_ContextOrder ==
    \A k \in 1..Len(gr_results) :
        GraphText(k) = ContextOf(gr_nodes[k], OtherNodes(gr_nodes[k], gr_subgraphs[k]),
                                 gr_subgraphs[k].relationships)

\* C10 as amended: that holds for a matched node that has an id, with a
\* "Related:" line only for the other subgraph nodes whose content is not
\* empty; for a matched node without an id no subgraph is obtained and the
\* text is the node's content alone, with no "Main:".
C10_ContextOrderForNodesWithId ==
    \A k \in 1..Len(gr_results) :
        /\ gr_nodes[k].id # "" =>
              /\ gr_subgraphs[k].present
              /\ GraphText(k) =
                    ContextOf(gr_nodes[k], OtherNodesWithContent(gr_nodes[k], gr_subgraphs[k]),
                              gr_subgraphs[k].relationships)
        /\ gr_nodes[k].id = "" =>
              /\ ~gr_subgraphs[k].present
              /\ GraphText(k) = gr_nodes[k].content

\* a text was built from a subgraph that holds the center node itself, a
\* node of more than 200 characters and a relationship
C10_Witness ==
    /\ gr_pc = "returned"
    /\ \E k \in 1..Len(gr_results) :
          /\ gr_nodes[k].id = "n1"
          /\ Len(gr_subgraphs[k].nodes) = 2
          /\ gr_subgraphs[k].nodes[1].id = "n1"
          /\ gr_subgraphs[k].nodes[2].properties.content = LongContent
          /\ gr_subgraphs[k].relationships = <<[type |-> RelatedTo]>>
          /\ Len(GraphText(k)) = Len(MainPrefix) + 1 + 1 + Len(RelatedPrefix) + PreviewLen
                                   + Len(Ellipsis) + 1 + Len(RelatedTo) + 2

(***************************************************************************)
(* Claims about the results of GraphRetriever.retrieve.                    *)
(***************************************************************************)
GraphChunk(k) == gr_results[k].chunk

\* the matched nodes that have an id, in the order of the records
RECURSIVE IdsOfNodes(_)
IdsOfNodes(nodes) ==
    IF nodes = <<>> THEN <<>>
    ELSE IF Head(nodes).id # "" THEN <<Head(nodes).id>> \o IdsOfNodes(Tail(nodes))
    ELSE IdsOfNodes(Tail(nodes))

SubgraphCalls == SelectSeq(gr_calls, LAMBDA c : c.op = "get_subgraph")

\* C11: for every matched record the chunk's id is the matched node's id, two
\* distinct matched nodes never yield chunks with the same id, and the
\* metadata's subgraph_nodes and subgraph_relations are the numbers of nodes
\* and relationships of the subgraph returned for the node.
C11_ChunkIdIsNodeId ==
    /\ \A k \in 1..Len(gr_results) :
          /\ GraphChunk(k).id = gr_nodes[k].id
          /\ GraphChunk(k).metadata.subgraph_nodes = Len(gr_subgraphs[k].nodes)
          /\ GraphChunk(k).metadata.subgraph_relations =
                Len(gr_subgraphs[k].relationships)
    /\ \A k, m \in 1..Len(gr_results) :
          k # m => GraphChunk(k).id # GraphChunk(m).id

\* C12 as stated: one result per record in the store's order, each of score 1
\* and source "graph"; one match query capped at the caller's limit; one
\* get_subgraph per matched node at the configured depth; no match gives the
\* empty list.
C12_OneResultPerRecord ==
    /\ gr_pc \in {"loop", "returned"} =>
          /\ Len(gr_results) <= Len(gr_nodes)
          /\ \A k \in 1..Len(gr_results) :
                /\ GraphChunk(k).metadata.original_content = gr_nodes[k].content
                /\ gr_results[k].score = 1
                /\ gr_results[k].source = "graph"
          /\ SelectSeq(gr_calls, LAMBDA c : c.op = "query") = <<Call("query", gr_limit)>>
          /\ Len(SubgraphCalls) = Len(gr_results)
          /\ \A j \in 1..Len(SubgraphCalls) :
                /\ SubgraphCalls[j].arg = gr_depth
                /\ SubgraphCalls[j].node = gr_nodes[j].id
    /\ gr_pc = "returned" => Len(gr_results) = Len(gr_nodes)

\* C12 as amended: as above, but get_subgraph is requested once per matched
\* node that has an id, in the order of the records, and not at all for a
\* matched node without an id; the match query is the first call.
C12_OneResultPerRecordSubgraphPerId ==
    /\ gr_pc \in {"loop", "returned"} =>
          /\ Len(gr_results) <= Len(gr_nodes)
          /\ Len(gr_nodes) <= gr_limit
          /\ \A k \in 1..Len(gr_results) :
                /\ GraphChunk(k).metadata.original_content = gr_nodes[k].content
                /\ gr_results[k].score = 1
                /\ gr_results[k].source = "graph"
                /\ gr_results[k].metadata.subgraph = gr_subgraphs[k]
                /\ gr_subgraphs[k].present <=> gr_nodes[k].id # ""
          /\ gr_calls[1] = Call("query", gr_limit)
          /\ \A j \in 2..Len(gr_calls) : gr_calls[j].op = "get_subgraph"
          /\ LET ids == IdsOfNodes(SubSeq(gr_nodes, 1, Len(gr_results)))
             IN  /\ Len(SubgraphCalls) = Len(ids)
                 /\ \A j \in 1..Len(ids) :
                       /\ SubgraphCalls[j].node = ids[j]
                       /\ SubgraphCalls[j].arg = gr_depth
    /\ gr_pc = "returned" => Len(gr_results) = Len(gr_nodes)
    /\ (gr_pc = "returned" /\ gr_nodes = <<>>) =>
          gr_results = <<>> /\ Len(gr_calls) = 1

\* a call at depth 2 returned two results, the first for a node with an id
\* and the second for a node without one
C12_Witness ==
    /\ gr_pc = "returned"
    /\ gr_depth = 2
    /\ Len(gr_results) = 2
    /\ gr_nodes[1].id = "n2"
    /\ gr_nodes[2].id = ""
    /\ Len(gr_subgraphs[1].nodes) = 1
    /\ Len(gr_calls) = 2

(***************************************************************************)
(* Claims about VectorRetriever.retrieve.                                  *)
(***************************************************************************)
\* C13: a call that reaches the store makes exactly one embed_text call on
\* the query and then exactly one search, on the configured collection, with
\* the query's vector, the caller's limit and the caller's filter; a call
\* that returns returns the store's results unchanged (the empty sequence
\* from an empty collection); a store error, such as a missing collection,
\* leaves retrieve as that error and nothing is returned; an embedder error
\* leaves retrieve before any search.
C13_OneEmbedOneSearchUnchanged ==
    LET search == SearchCall("collection", embed_text(vr_query), vr_limit, vr_filter)
    IN  /\ vr_pc = "returned" =>
              /\ vr_calls = <<EmbedCall(vr_query), search>>
              /\ vr_result = vr_found
              /\ vr_error = ""
              /\ vr_collection = "empty" => vr_result = <<>>
              /\ vr_collection # "missing"
        /\ vr_pc = "raised" =>
              /\ vr_result = <<>>
              /\ vr_error # ""
              /\ \/ vr_calls = <<EmbedCall(vr_query), search>>
                 \/ vr_calls = <<EmbedCall(vr_query)>> /\ vr_error = "UpstreamFailure"
              /\ vr_collection = "missing" /\ Len(vr_calls) = 2 => vr_error = "NotFound"
        /\ vr_pc = "embedded" => vr_calls = <<EmbedCall(vr_query)>>

\* a call with a filter and limit 2 returned two results of the store
C13_Witness ==
    /\ vr_pc = "returned"
    /\ vr_filter = "f1"
    /\ vr_limit = 2
    /\ Len(vr_result) = 2
    /\ vr_result[1].chunk.id = "c2"
    /\ vr_result[2].chunk.id = "c1"

(***************************************************************************)
(* Claims about PolyRAGPipeline.ingest.                                    *)
(***************************************************************************)
OpsOf(calls) == [k \in 1..Len(calls) |-> calls[k].op]

CallsOf(op) == SelectSeq(pl_calls, LAMBDA c : c.op = op)

\* the batches this pipeline instance has put into the collection
OwnBatches(store) == store.batches \ {0}

\* C14: on one pipeline instance, over any sequence of ingest, query and
\* query_stream calls, create_collection returns at most once, and only in
\* an ingest made while the flag is unset; no step removes from the
\* collection a batch that an ingest of this instance inserted.
C14_CreatedOnceNeverRecreated ==
    [][/\ pl_creates' <= 1
       /\ pl_creates' # pl_creates =>
             /\ pl_op' = "ingest"
             /\ ~pl_collection_initialized
             /\ pl_store'.exists
       /\ OwnBatches(pl_store) \subseteq OwnBatches(pl_store')
       /\ pl_store'.batches # pl_store.batches => pl_collection_initialized']_vars

\* a second ingest has inserted its batch and the batch of the first is
\* still in the collection
C14_Witness ==
    /\ pl_pc = "returned"
    /\ pl_op = "ingest"
    /\ pl_ops = 2
    /\ pl_store.batches = {1, 2}
    /\ pl_creates = 1

StageRank(op) ==
    CASE op = "create_collection" -> 0
      [] op = "load" -> 1
      [] op = "chunk" -> 2
      [] op = "embed_texts" -> 3
      [] op = "insert" -> 4
      [] OTHER -> 5

\* the chunk texts of the documents, document after document
RECURSIVE TextsOf(_)
TextsOf(documents) ==
    IF documents = <<>> THEN <<>>
    ELSE ChunkTexts(Head(documents)) \o TextsOf(Tail(documents))

\* C15: an ingest that returns has called load, chunk, embed_texts and
\* insert in that order; with one chunk or more it made exactly one
\* embed_texts call, on the contents of all chunks in chunk order, and then
\* exactly one insert call with all chunks, each carrying the embedding of
\* its own content, and returns the number of chunks; with no chunk it made
\* no embed_texts and no insert call and returns 0.
C15_IngestStagesInOrder ==
    (pl_op = "ingest" /\ pl_pc = "returned") =>
        LET texts == TextsOf(pl_documents)
        IN  /\ \A j, k \in 1..Len(pl_calls) :
                  j < k => StageRank(pl_calls[j].op) <= StageRank(pl_calls[k].op)
            /\ CallsOf("chunk") =
                  [k \in 1..Len(pl_documents) |-> PCall("chunk", <<pl_documents[k]>>, 0)]
            /\ Len(pl_chunks) = Len(texts)
            /\ pl_return = <<Len(texts)>>
            /\ texts = <<>> =>
                  /\ CallsOf("embed_texts") = <<>>
                  /\ CallsOf("insert") = <<>>
                  /\ pl_inserted = <<>>
            /\ texts # <<>> =>
                  /\ CallsOf("embed_texts") = <<PCall("embed_texts", texts, 0)>>
                  /\ Len(CallsOf("insert")) = 1
                  /\ Len(pl_inserted) = 1
                  /\ Len(pl_inserted[1]) = Len(texts)
                  /\ \A i \in 1..Len(texts) :
                        /\ pl_inserted[1][i].content = texts[i]
                        /\ pl_inserted[1][i].embedding = "e(" \o texts[i] \o ")"
                        /\ CallsOf("insert")[1].arg[i] = pl_inserted[1][i].id
                  /\ pl_ops \in pl_store.batches

\* an ingest of a directory of two files returned 3, the number of their chunks
C15_Witness ==
    /\ pl_op = "ingest"
    /\ pl_pc = "returned"
    /\ pl_arg.path.kind = "dir"
    /\ pl_documents = <<"b.md", "a.txt">>
    /\ pl_return = <<3>>
    /\ Len(pl_inserted) = 1

\* an ingest of a file without text returned 0
C15_WitnessEmpty ==
    /\ pl_op = "ingest"
    /\ pl_pc = "returned"
    /\ pl_documents = <<"e.txt">>
    /\ pl_return = <<0>>

\* the load loop of the ingest in progress is over
LoadStageDone ==
    \/ pl_pc \in {"loaded", "chunked", "embedded", "returned"}
    \/ pl_pc = "raised" /\ CallsOf("embed_texts") # <<>>

LastCall == pl_calls[Len(pl_calls)]

\* C16: in an ingest of a directory, load is called once on every file of
\* the tree with a supported extension, in the order of the walk, and on no
\* other file; a load that fails does not end the call; the documents are
\* those of the files that loaded, and the count returned is the number of
\* their chunks.
C16_DirectoryLoadFailureSkipped ==
    (pl_op = "ingest" /\ pl_arg.path.kind = "dir") =>
        LET files == pl_arg.path.files
            tried == SelectSeq(files, Supported)
            loaded == SelectSeq(files, LAMBDA f : Supported(f) /\ Loads(f))
        IN  /\ pl_error \notin {"LoadFailure", "FileNotFoundError"}
            /\ LoadStageDone =>
                  /\ CallsOf("load") = [k \in 1..Len(tried) |-> PCall("load", <<tried[k]>>, 0)]
                  /\ pl_documents = loaded
            /\ pl_pc = "returned" => pl_return = <<Len(TextsOf(loaded))>>

\* an ingest of a directory whose second file is corrupt returned the 3
\* chunks of the first and the third file
C16_Witness ==
    /\ pl_op = "ingest"
    /\ pl_pc = "returned"
    /\ pl_arg.path = [kind |-> "dir", files |-> <<"a.txt", "c.txt", "b.md">>]
    /\ Len(CallsOf("load")) = 3
    /\ pl_return = <<3>>

\* C17: an ingest on a path that is neither a file nor a directory ends in
\* FileNotFoundError (unless create_collection failed before the path was
\* looked at); it loads no document, embeds no chunk and inserts nothing.
C17_MissingPathNotFound ==
    (pl_op = "ingest" /\ pl_arg.path.kind = "missing") =>
        /\ pl_pc \in {"ensured", "raised"}
        /\ pl_pc = "raised" =>
              \/ pl_error = "FileNotFoundError"
              \/ pl_error = "UpstreamFailure" /\ OpsOf(pl_calls) = <<"create_collection">>
        /\ \A k \in 1..Len(pl_calls) : pl_calls[k].op = "create_collection"
        /\ pl_documents = <<>>
        /\ pl_chunks = <<>>
        /\ pl_inserted = <<>>
        /\ pl_return = <<>>
        /\ pl_ops \notin pl_store.batches

\* the second ingest, on a missing path, raised FileNotFoundError; the batch
\* of the first is in the collection
C17_Witness ==
    /\ pl_op = "ingest"
    /\ pl_arg.path.kind = "missing"
    /\ pl_pc = "raised"
    /\ pl_error = "FileNotFoundError"
    /\ pl_ops = 2
    /\ pl_store.batches = {1}

\* C18: in an ingest, a failure of the batched embedding call leaves the
\* call as an error and insert is not called; a failure of insert leaves
\* the call as an error and no count is returned; insert is called at most
\* once, with all the chunks of the ingest, each with its embedding, and the
\* batch is in the collection only when insert returned.
C18_NoPartialBatch ==
    pl_op = "ingest" =>
        /\ pl_error # "" <=> pl_pc = "raised"
        /\ pl_pc = "raised" => pl_return = <<>> /\ pl_ops \notin pl_store.batches
        /\ (pl_pc = "raised" /\ pl_calls # <<>> /\ LastCall.op = "embed_texts") =>
              /\ CallsOf("insert") = <<>>
              /\ pl_inserted = <<>>
        /\ Len(pl_inserted) <= 1
        /\ Len(CallsOf("insert")) = Len(pl_inserted)
        /\ \A b \in 1..Len(pl_inserted) :
              /\ Len(pl_inserted[b]) = Len(TextsOf(pl_documents))
              /\ Len(pl_inserted[b]) >= 1
              /\ \A i \in 1..Len(pl_inserted[b]) : pl_inserted[b][i].embedding # ""
              /\ Len(CallsOf("embed_texts")) = 1
        /\ pl_ops \in pl_store.batches => pl_pc = "returned" /\ Len(pl_inserted) = 1

\* the embedding call of an ingest of three chunks failed
C18_Witness ==
    /\ pl_op = "ingest"
    /\ pl_pc = "raised"
    /\ Len(pl_chunks) = 3
    /\ LastCall.op = "embed_texts"
    /\ pl_inserted = <<>>

(***************************************************************************)
(* Claims about PolyRAGPipeline.query and query_stream.                    *)
(***************************************************************************)
GeneratorCalls == SelectSeq(pl_calls, LAMBDA c : c.op \in {"generate", "generate_stream"})

\* the header and the content of block k
ExpectedBlock(k) ==
    LET r == pl_results[k]
        name == IF "file_name" \in DOMAIN r.chunk.metadata
                THEN r.chunk.metadata["file_name"] ELSE "Unknown source"
    IN  <<"[", ToString(k), "] (Source: ", name, ", Score: ", Format3(r.score), ")",
          "\n", r.chunk.content>>

\* blocks 1..k, a blank line between two of them
RECURSIVE ExpectedContext(_)
ExpectedContext(k) ==
    IF k = 0 THEN <<>>
    ELSE IF k = 1 THEN ExpectedBlock(1)
    ELSE ExpectedContext(k - 1) \o <<"\n\n">> \o ExpectedBlock(k)

\* C19: when the generator is called with a non-empty result list, the
\* system prompt it gets is the template (the caller's, or the default when
\* none or an empty one was given) with {context} replaced by the context:
\* one block per result in rank order, block k being the header
\* "[k] (Source: <file name, or Unknown source>, Score: <score to 3 decimals>)",
\* a newline and the chunk content, blocks separated by a blank line; the
\* prompt it gets is the question, unmodified.
C19_ContextBlocksInRankOrder ==
    (GeneratorCalls # <<>> /\ pl_results # <<>>) =>
        LET given == pl_arg.system_prompt
            tpl == IF given.given /\ given.text # <<>> THEN given.text
                   ELSE DEFAULT_SYSTEM_PROMPT
            context == ExpectedContext(Len(pl_results))
        IN  /\ Len(GeneratorCalls) = 1
            /\ GeneratorCalls[1].arg = <<pl_arg.question>>
            /\ \A k \in 1..Len(tpl) :
                  tpl[k] = "{context}" =>
                      pl_system = SubSeq(tpl, 1, k - 1) \o context
                                  \o SubSeq(tpl, k + 1, Len(tpl))
            /\ (\A k \in 1..Len(tpl) : tpl[k] # "{context}") => pl_system = tpl

\* a query with a template of its own got an answer from two results, the
\* first without a file name
C19_Witness ==
    /\ pl_op = "query"
    /\ pl_pc = "returned"
    /\ pl_arg.question = "q2"
    /\ Len(pl_results) = 2
    /\ pl_results[1].chunk.id = "c2"
    /\ pl_results[2].chunk.id = "c1"
    /\ pl_system = <<"Use only this:\n",
                     "[", "1", "] (Source: ", "Unknown source", ", Score: ", "1.235", ")",
                     "\n", "y", "\n\n",
                     "[", "2", "] (Source: ", "a.txt", ", Score: ", "0.870", ")",
                     "\n", "x">>

\* C20: in a query, retrieve is called first and generate after it, at most
\* once each; a failure of the retriever leaves query as an error without a
\* generate call; a failure of the generator leaves query as an error; a
\* query that ends in an error returns no answer, and the answer a query
\* returns is what the generator returned in that call.
C20_QueryFailsWithoutAnswer ==
    pl_op = "query" =>
        /\ OpsOf(pl_calls) \in {<<"retrieve">>, <<"retrieve", "generate">>}
        /\ pl_calls[1] = PCall("retrieve", <<pl_arg.question>>, pl_arg.top_k)
        /\ pl_error # "" <=> pl_pc = "raised"
        /\ pl_pc = "raised" => pl_return = <<>>
        /\ pl_pc = "returned" =>
              /\ OpsOf(pl_calls) = <<"retrieve", "generate">>
              /\ Len(pl_return) = 1
              /\ pl_return = pl_stream.pieces
        /\ pl_return # <<>> => pl_pc = "returned"

\* the retriever failed in the second call on the pipeline, a query
C20_Witness ==
    /\ pl_op = "query"
    /\ pl_pc = "raised"
    /\ pl_ops = 2
    /\ OpsOf(pl_calls) = <<"retrieve">>
    /\ pl_error = "UpstreamFailure"

(***************************************************************************)
(* Streaming query                                                         *)
(***************************************************************************)
GeneratorStreamCalled == "generate_stream" \in Range(OpsOf(pl_calls))

\* C21: what query_stream has yielded is at every moment the increments the
\* generator's stream has produced so far, in their order, one yield for each
\* (none dropped, duplicated, merged or reordered); query_stream yields
\* nothing before the generator's stream was opened, and it ends, normally
\* or with the stream's error, only when every increment of the stream was
\* yielded.
C21_StreamYieldsIncrementsInOrder ==
    pl_op = "query_stream" =>
        /\ Len(pl_return) <= Len(pl_stream.pieces)
        /\ \A k \in 1..Len(pl_return) : pl_return[k] = pl_stream.pieces[k]
        /\ ~GeneratorStreamCalled => pl_return = <<>>
        /\ (pl_pc \in {"returned", "raised"} /\ GeneratorStreamCalled) =>
              pl_return = pl_stream.pieces
        /\ pl_pc = "returned" => (GeneratorStreamCalled /\ ~pl_stream.fails)

\* a stream of two different increments was yielded to its end
C21_Witness ==
    /\ pl_op = "query_stream"
    /\ pl_pc = "returned"
    /\ pl_stream.pieces = <<"A", "B">>
    /\ pl_return = <<"A", "B">>

(***************************************************************************)
(* Claims about the calls a retriever makes.                               *)
(***************************************************************************)
\* C24: the calls one hybrid retrieve has made on its strategies are, in
\* order, one on strategy 1, one on strategy 2, and so on, each with the
\* caller's query and options and with twice the caller's limit; strategy
\* k is invoked only when every strategy before it has returned its whole
\* result list; and a retrieve that returned has invoked every configured
\* strategy exactly once.
C24_EachStrategyOnceInOrder ==
    hy_pc \in {"loop", "returned", "raised"} =>
        /\ Len(hy_calls) <= Len(hy_retrievers)
        /\ \A k \in 1..Len(hy_calls) :
              /\ hy_calls[k].retriever = k
              /\ hy_calls[k].query = hy_query
              /\ hy_calls[k].kwargs = hy_kwargs
              /\ hy_calls[k].limit = 2 * hy_limit
              /\ Len(hy_outputs) >= k - 1
        /\ Len(hy_outputs) <= Len(hy_calls)
        /\ hy_pc = "loop" => (Len(hy_outputs) = Len(hy_calls) /\ hy_i = Len(hy_calls) + 1)
        /\ hy_pc = "returned" => Len(hy_calls) = Len(hy_retrievers)

\* two strategies were invoked for a caller's limit of 2 with an option, and
\* both returned results
C24_Witness ==
    /\ hy_pc = "returned"
    /\ Len(hy_calls) = 2
    /\ hy_limit = 2
    /\ hy_query = "q2"
    /\ hy_kwargs = "f1"
    /\ hy_outputs[1] # <<>>
    /\ hy_outputs[2] # <<>>

ColBERTCalls(op) == SelectSeq(cb_calls, LAMBDA c : c.op = op)

\* C25: one ColBERT retrieve makes exactly one vector search, with a limit of
\* three times the caller's limit, and computes the query token matrix
\* exactly once; it computes the document token matrix and the MaxSim score
\* exactly once for every candidate the search returned, in the order of the
\* candidates, also for those that are cut from the returned list.
C25_OneSearchOneScorePerCandidate ==
    cb_pc \in {"loop", "returned"} =>
        /\ Len(ColBERTCalls("search")) = 1
        /\ ColBERTCalls("search")[1].arg = 3 * cb_limit
        /\ Len(cb_candidates) <= 3 * cb_limit
        /\ Len(ColBERTCalls("embed_query_tokens")) = 1
        /\ Len(ColBERTCalls("embed_doc_tokens")) = Len(cb_reranked)
        /\ \A k \in 1..Len(cb_reranked) :
              /\ ColBERTCalls("embed_doc_tokens")[k].arg = k
              /\ cb_reranked[k].chunk = cb_candidates[k].chunk
        /\ Len(cb_reranked) <= Len(cb_candidates)
        /\ cb_pc = "returned" => Len(cb_reranked) = Len(cb_candidates)

\* three candidates were scored for a caller's limit of 1, which returns one
C25_Witness ==
    /\ cb_pc = "returned"
    /\ cb_limit = 1
    /\ Len(cb_candidates) = 3
    /\ Len(ColBERTCalls("embed_doc_tokens")) = 3
    /\ Len(cb_result) = 1

(***************************************************************************)
(* Claims about the lazy-initialization flag.                              *)
(***************************************************************************)
\* C28: on a pipeline instance used sequentially, the flag is set exactly
\* when a create_collection call of the instance has returned: it starts
\* unset, an ingest entered while it is unset calls create_collection first,
\* a create_collection call that raises leaves it unset, and no step unsets
\* it.
C28_FlagIffCreateReturned ==
    /\ [](pl_collection_initialized <=> pl_creates >= 1)
    /\ [][/\ pl_collection_initialized => pl_collection_initialized'
          /\ (~pl_collection_initialized /\ pl_ops' = pl_ops + 1 /\ pl_op' = "ingest") =>
                /\ pl_calls'[1].op = "create_collection"
                /\ pl_collection_initialized' <=> pl_pc' # "raised"
                /\ pl_creates' = IF pl_pc' = "raised" THEN pl_creates ELSE pl_creates + 1
          /\ pl_collection_initialized' # pl_collection_initialized =>
                pl_creates' = pl_creates + 1]_vars

\* create_collection raised in the second call on the pipeline, an ingest,
\* and the flag is unset
C28_Witness ==
    /\ pl_op = "ingest"
    /\ pl_pc = "raised"
    /\ pl_ops = 2
    /\ OpsOf(pl_calls) = <<"create_collection">>
    /\ pl_error = "UpstreamFailure"
    /\ ~pl_collection_initialized

\* C29: ingest ensures the collection before it looks at the path: when an
\* ingest ends in FileNotFoundError the flag is set and create_collection
\* has returned once on the instance, in that very call if the flag was unset
\* when it was entered; an ingest entered while the flag is set makes no
\* create_collection call.
C29_EnsureBeforePathCheck ==
    /\ []((pl_op = "ingest" /\ pl_error = "FileNotFoundError") =>
            /\ pl_collection_initialized
            /\ pl_creates = 1
            /\ pl_store.exists
            /\ pl_ops = 1 => pl_calls = <<PCall("create_collection", <<"collection">>, 0)>>)
    /\ [][(pl_collection_initialized /\ pl_ops' = pl_ops + 1 /\ pl_op' = "ingest") =>
             /\ pl_calls' = <<>>
             /\ pl_creates' = pl_creates
             /\ pl_store' = pl_store]_vars

\* the first ingest of the instance was given a missing path: it raised
\* FileNotFoundError after create_collection had returned
C29_Witness ==
    /\ pl_op = "ingest"
    /\ pl_ops = 1
    /\ pl_arg.path.kind = "missing"
    /\ pl_pc = "raised"
    /\ pl_error = "FileNotFoundError"
    /\ pl_collection_initialized
    /\ OpsOf(pl_calls) = <<"create_collection">>

QueryOps == {"query", "query_stream", "get_retrieval_results"}

\* C30: query, query_stream and get_retrieval_results leave the flag, the
\* collection and the count of create_collection calls as they are, and call
\* only the retriever and (query, query_stream) the generator: never
\* create_collection, embed_texts or insert; the retriever is called first,
\* also while the flag is unset; and when the retriever returned an empty
\* list, query and query_stream still call the generator exactly once, with
\* the template in which {context} is "No relevant context found.".
C30_QueriesLeaveFlagAlone ==
    /\ [](pl_op \in QueryOps =>
            /\ pl_calls # <<>>
            /\ pl_calls[1] = PCall("retrieve", <<pl_arg.question>>, pl_arg.top_k)
            /\ \A k \in 2..Len(pl_calls) :
                  /\ pl_calls[k].op \in {"generate", "generate_stream"}
                  /\ pl_op # "get_retrieval_results"
            /\ Len(pl_calls) <= 2
            /\ pl_inserted = <<>>
            /\ pl_chunks = <<>>
            /\ (pl_results = <<>> /\ pl_pc = "returned" /\ pl_op # "get_retrieval_results") =>
                  /\ Len(pl_calls) = 2
                  /\ pl_system = Format(PromptTemplate(pl_arg.system_prompt),
                                        <<"No relevant context found.">>))
    /\ [][pl_op' \in QueryOps =>
             /\ pl_collection_initialized' = pl_collection_initialized
             /\ pl_store' = pl_store
             /\ pl_creates' = pl_creates]_vars

\* the first call on the instance was a query whose retrieval was empty: the
\* generator was called with the default template and the flag is unset
C30_Witness ==
    /\ pl_op = "query"
    /\ pl_ops = 1
    /\ pl_pc = "returned"
    /\ pl_results = <<>>
    /\ pl_arg.top_k = 2
    /\ ~pl_collection_initialized
    /\ ~pl_store.exists
    /\ OpsOf(pl_calls) = <<"retrieve", "generate">>
    /\ pl_system = <<DEFAULT_SYSTEM_PROMPT[1], "No relevant context found.",
                     DEFAULT_SYSTEM_PROMPT[3]>>

(***************************************************************************)
(* Claims about FixedSizeChunker.                                          *)
(***************************************************************************)
ChunkerAccepted == fc_pc \in {"idle", "loop", "done"}

\* C27: the constructor raises ValueError exactly when chunk_overlap >=
\* chunk_size; for a chunker with 0 <= chunk_overlap < chunk_size the loop of
\* _split_text is left after finitely many turns, and what it returns has:
\* no chunk for an empty text; in every chunk between 1 and chunk_size
\* characters, those of the text from the chunk's start on; the first chunk
\* starting at position 0 and each further one chunk_size - chunk_overlap
\* after the one before; every position of the text in some chunk.
C27_ChunksCoverText ==
    /\ [](/\ fc_pc = "failed" =>
               (fc_error = "ValueError" /\ fc_chunk_overlap >= fc_chunk_size)
          /\ ChunkerAccepted => (fc_error = "" /\ fc_chunk_overlap < fc_chunk_size)
          /\ (ChunkerAccepted /\ fc_chunk_overlap >= 0) =>
                /\ Len(fc_starts) = Len(fc_chunks)
                /\ fc_text = <<>> => fc_chunks = <<>>
                /\ \A k \in 1..Len(fc_chunks) :
                      /\ Len(fc_chunks[k]) >= 1
                      /\ Len(fc_chunks[k]) <= fc_chunk_size
                      /\ fc_starts[k] = (k - 1) * (fc_chunk_size - fc_chunk_overlap)
                      /\ \A j \in 1..Len(fc_chunks[k]) :
                            fc_chunks[k][j] = fc_text[fc_starts[k] + j]
                /\ fc_pc = "done" =>
                      \A p \in 1..Len(fc_text) :
                          \E k \in 1..Len(fc_chunks) :
                              /\ fc_starts[k] < p
                              /\ p <= fc_starts[k] + Len(fc_chunks[k]))
    /\ (fc_pc = "loop") ~> (fc_pc = "done")

\* a text of four characters was cut with chunk_size 3 and chunk_overlap 2:
\* four chunks, the last of one character
C27_Witness ==
    /\ fc_pc = "done"
    /\ fc_chunk_size = 3
    /\ fc_chunk_overlap = 2
    /\ Len(fc_text) = 4
    /\ fc_starts = <<0, 1, 2, 3>>
    /\ Len(fc_chunks[4]) = 1

(***************************************************************************)
(* Claims about concurrent ingest calls.                                   *)
(***************************************************************************)
\* C26: whatever the interleaving of the ingest calls that threads make on
\* one pipeline instance, the flag is assigned at most once, create_collection
\* returns at most once, and the batch of every ingest whose insert returned
\* is in the collection.
C26_CreatedOnceUnderConcurrency ==
    /\ ci_sets <= 1
    /\ ci_creates <= 1
    /\ \A t \in Threads : ci_pc[t] = "done" => t \in ci_store.batches

(***************************************************************************)
(* Claims about the vector store.                                          *)
(***************************************************************************)
ChunksOf(results) == [k \in 1..Len(results) |-> results[k].chunk]

\* the weighted score the list gives to the id: 0 when no result has it
HalfScoreOf(results, id) ==
    RatSumSeq([k \in 1..Len(results) |->
                  IF results[k].chunk.id = id
                  THEN RatMul(RatOfInt(results[k].score), Rat(1, 2))
                  ELSE RatOfInt(0)])

\* C22: a chunk inserted with id c is held by the collection under c; every
\* result of a search is a stored point, its chunk.id being the id the point
\* was inserted with; the vector and ColPali retrievers return the chunks of
\* the search in its order, the ColBERT retriever returns `limit` of them,
\* each unchanged; and the fusion of two retrievers' lists has exactly one
\* entry per chunk id that occurs in either list, whose score is the sum of
\* the weighted scores of the results with that id: results are merged when,
\* and only when, their chunk ids are equal.
C22_IdsPreservedEndToEnd ==
    /\ qd_pc = "inserted" =>
          \A k \in 1..Len(qd_batch) :
              \E p \in qd_points : p.id = [uuid |-> qd_batch[k].id]
    /\ \A j \in 1..Len(qd_outputs) :
          LET o == qd_outputs[j] IN
          /\ DistinctIds(o.found)
          /\ \A k \in 1..Len(o.found) :
                \E p \in qd_points :
                    /\ p.id = [uuid |-> o.found[k].chunk.id]
                    /\ p.payload["content"] = o.found[k].chunk.content
          /\ o.kind \in {"vector", "colpali"} => ChunksOf(o.results) = ChunksOf(o.found)
          /\ o.kind = "colbert" =>
                /\ Len(o.results) = Min(o.limit, Len(o.found))
                /\ DistinctIds(o.results)
                /\ Range(ChunksOf(o.results)) \subseteq Range(ChunksOf(o.found))
    /\ qd_pc = "fused" =>
          LET a == qd_outputs[1].results
              b == qd_outputs[2].results
          IN  /\ DistinctIds(qd_fused)
              /\ IdsOf(qd_fused) = IdsOf(a) \cup IdsOf(b)
              /\ \A k \in 1..Len(qd_fused) :
                    qd_fused[k].score = RatAdd(HalfScoreOf(a, qd_fused[k].chunk.id),
                                               HalfScoreOf(b, qd_fused[k].chunk.id))

\* the lists of the vector and the ColBERT retriever were fused: a chunk
\* the pipeline's ingest inserted is in both lists and has one fused entry,
\* a chunk a caller inserted as "u1" is in the second list only, and
\* another chunk is in the first list only
C22_Witness ==
    /\ qd_pc = "fused"
    /\ qd_outputs[1].kind = "vector"
    /\ qd_outputs[2].kind = "colbert"
    /\ \E id \in IdsOf(qd_outputs[1].results) \cap IdsOf(qd_outputs[2].results) :
          id \notin StoreIds
    /\ "u1" \in IdsOf(qd_outputs[2].results) \ IdsOf(qd_outputs[1].results)
    /\ IdsOf(qd_outputs[1].results) \ IdsOf(qd_outputs[2].results) # {}
    /\ Len(qd_fused) = 3

\* C23: every point of the collection has a vector; an insert call whose
\* list has a chunk without an embedding raises ValueError and leaves the
\* collection as it was (also the chunks before that one are not written),
\* any other insert call puts every chunk of its list into the collection
\* with its embedding as the vector; and every chunk the pipeline's ingest
\* passes to insert carries the embedding the batched embedding call
\* returned for its text, so that call does not raise ValueError.
C23_InsertNeedsEmbedding ==
    /\ [](/\ \A p \in qd_points : p.vector # NoEmbedding
          /\ qd_pc \in {"inserted", "raised"} =>
                /\ qd_error = "ValueError" <=>
                      \E k \in 1..Len(qd_batch) : qd_batch[k].embedding = NoEmbedding
                /\ qd_pc = "raised" <=> qd_error = "ValueError"
                /\ qd_pc = "inserted" =>
                      \A k \in 1..Len(qd_batch) : \E p \in qd_points :
                          /\ p.id = [uuid |-> qd_batch[k].id]
                          /\ p.vector = qd_batch[k].embedding
          /\ qd_caller = "ingest" =>
                /\ qd_pc = "inserted"
                /\ \A k \in 1..Len(qd_batch) :
                      qd_batch[k].embedding = embed_texts(<<qd_batch[k].content>>)[1])
    /\ [][qd_pc' = "raised" => qd_points' = qd_points]_vars

\* the second chunk of a list had no embedding: insert raised and the first
\* chunk is not in the collection
C23_Witness ==
    /\ qd_pc = "raised"
    /\ qd_error = "ValueError"
    /\ Len(qd_batch) = 2
    /\ qd_batch[1].embedding # NoEmbedding
    /\ qd_batch[2].embedding = NoEmbedding
    /\ \A p \in qd_points : p.id # [uuid |-> qd_batch[1].id]

====
